---- MODULE Spec2Model ----
(***************************************************************************)
(* Model of the media publish workflow of the Facebook / Instagram         *)
(* integration layer: the Step Functions dispatcher of app.py              *)
(* (lambda_handler, handle_step_function_request) and the four phase       *)
(* operations of FacebookService (init_reel_upload, upload_hosted_file,    *)
(* check_reel_upload_status, publish_reel).                                *)
(*                                                                         *)
(* The core is stateless: one action of the model is one invocation of     *)
(* lambda_handler.  Its inputs are the event and the decoded response the  *)
(* Graph API gives to the one outbound call the invocation may make.  The  *)
(* state keeps the last event, the response received, the number of        *)
(* outbound calls, the result returned, and history variables over the     *)
(* sequence of results (what an orchestrator would observe).               *)
(*                                                                         *)
(* SpecClient calls the methods of FacebookService directly, the           *)
(* pass-through calls of the Graph API client included.  SpecWebhook is    *)
(* the webhook endpoint of handle_api_gateway_request: the verification    *)
(* GET, and the POST that normalizes a page-subscription delivery          *)
(* (process_webhook_event) and publishes its events; wh is the request in  *)
(* progress with what the environment answered and what came of it.        *)
(***************************************************************************)
EXTENDS Integers, Sequences, FiniteSets, TLC

VARIABLES req, resp, calls, result, lastPhase, sessId, readyIds, oneSession, inOrder,
          initPlatform, sinceInit, wh, live, sleeps, sessions, bus

vars == <<req, resp, calls, result, lastPhase, sessId, readyIds, oneSession, inOrder,
          initPlatform, sinceInit, wh, live, sleeps, sessions, bus>>

\* the variables of the live-stream, posting, repeated-init and redelivery
\* specifications; the other specifications leave them as they start
aux == <<live, sleeps, sessions, bus>>

(***************************************************************************)
(* Bounds of the model.                                                    *)
(***************************************************************************)
\* video / container / media ids handed out by the platform are 1..MaxId
MaxId == 2
\* attempt counters supplied by the caller are 0..MaxAttempt
MaxAttempt == 1
\* a URL's network location is at most MaxNetloc chunks long
MaxNetloc == 4

\* marker of a numeric field that a record does not carry
Absent == 0 - 1

Ids == 1..MaxId

(***************************************************************************)
(* Values of the event's fields.  "" is a value Python treats as false     *)
(* (the key is absent, None, or the empty string).                         *)
(***************************************************************************)
PageIds == {"", "p1"}
Tokens == {"", "tok"}
Descriptions == {"", "caption"}
\* "none": the event carries no platform key, event.get('platform') is None
Platforms == {"facebook", "instagram", "Instagram", "none"}
\* 0: the event carries no id (or a false one)
VideoIds == 0..MaxId
\* Absent: the event carries no attempt key
Attempts == {Absent} \cup (0..MaxAttempt)

\* str.lower() on the platform values
Lower(p) == IF p = "Instagram" THEN "instagram" ELSE p

(***************************************************************************)
(* URLs.  A URL is the text  scheme ++ netloc ++ "/v.mp4" ; the netloc is  *)
(* a sequence of character chunks, so that "x","fbcdn",".","net" is the    *)
(* text xfbcdn.net.  "" as scheme with an empty netloc is the missing URL. *)
(***************************************************************************)
Chunks == {"fbcdn", "FBCDN", ".", "net", "x"}
Schemes == {"https://", "http://", "HTTPS://"}

NoUrl == [scheme |-> "", netloc |-> <<>>]

SeqsUpTo(S, n) == UNION {[1..k -> S] : k \in 0..n}

AllUrls == {[scheme |-> s, netloc |-> n] : s \in Schemes, n \in SeqsUpTo(Chunks, MaxNetloc)}

\* the URLs of the workflow specification: an accepted one and one of each
\* rejected kind
SomeUrls ==
  { [scheme |-> "https://", netloc |-> <<"x", ".", "net">>],
    [scheme |-> "http://", netloc |-> <<"x", ".", "net">>],
    [scheme |-> "https://", netloc |-> <<"x", ".", "fbcdn", ".", "net">>] }

\* str.lower() on a chunk, and on a netloc
LowerChunk(c) == IF c = "FBCDN" THEN "fbcdn" ELSE c
LowerSeq(s) == [i \in 1..Len(s) |-> LowerChunk(s[i])]

\* Python's  pat in s  on chunk sequences
Contains(s, pat) ==
  \E i \in 1..(Len(s) - Len(pat) + 1) :
     \A j \in 1..Len(pat) : s[i + j - 1] = pat[j]

FbCdn == <<"fbcdn", ".", "net">>

(***************************************************************************)
(* The Graph API's answer to one outbound call: the decoded JSON object    *)
(* (kind "json", with the keys the code reads) or a failure of the call    *)
(* (kind "exception": requests raises, or the body is not JSON).           *)
(*   error          "absent", or the kind of the error object              *)
(*   id, video_id   0 when the key is absent                               *)
(*   success        "absent", "true" or "false"                            *)
(*   status_code    instagram container status                             *)
(*   status         facebook: "absent", "not_a_dict", or the video_status  *)
(*                  of the status object ("no_video_status": none)         *)
(*   data           page listing: the number of pages under the "data"     *)
(*                  key, Absent when the key is missing                    *)
(*   instagram_business_account                                            *)
(*                  page listing: what the per-page call gives, "present", *)
(*                  "absent" (no such key) or "exception" (the call fails) *)
(*   head, codes, publish                                                  *)
(*                  posting to instagram in one invocation: the outcome of *)
(*                  the HEAD request on the media URL, the answers to the  *)
(*                  status requests in order, the outcome of the publish   *)
(*                  call ("unasked", <<>>: the request is not made)        *)
(***************************************************************************)
NoResp ==
  [kind |-> "none", error |-> "absent", id |-> 0, video_id |-> 0,
   success |-> "absent", post_id |-> FALSE, permalink_url |-> FALSE,
   status_code |-> "absent", status |-> "absent",
   data |-> Absent, instagram_business_account |-> "absent",
   head |-> "unasked", codes |-> <<>>, publish |-> "unasked"]

Json == [NoResp EXCEPT !.kind = "json"]

Failure == [NoResp EXCEPT !.kind = "exception"]

StatusCodes == {"FINISHED", "ERROR", "IN_PROGRESS", "PUBLISHED"}
VideoStatuses == {"ready", "error", "processing", "no_video_status", "not_a_dict"}

InitResponses ==
  {Failure} \cup
  {[Json EXCEPT !.error = e, !.id = i, !.video_id = v] :
     e \in {"absent", "generic"}, i \in 0..MaxId, v \in 0..MaxId}

UploadResponses ==
  {Failure} \cup
  {[Json EXCEPT !.error = e, !.success = s] :
     e \in {"absent", "generic"}, s \in {"absent", "true", "false"}}

CheckResponses ==
  {Failure} \cup
  {[Json EXCEPT !.error = e, !.status_code = c] :
     e \in {"absent", "generic"}, c \in {"absent"} \cup StatusCodes} \cup
  {[Json EXCEPT !.error = e, !.status = v] :
     e \in {"absent", "generic"}, v \in VideoStatuses}

\* the success keys and the id keys a finish / publish answer may carry
SuccessParts == {<<"absent", FALSE>>, <<"false", FALSE>>, <<"true", FALSE>>, <<"true", TRUE>>}
IdParts == {<<0, FALSE>>} \cup {<<i, l>> : i \in Ids, l \in BOOLEAN}

\* "not_ready": the error object the platform gives while the media is not
\* yet available for publishing
PublishResponses ==
  {Failure, [Json EXCEPT !.error = "not_ready"]} \cup
  {[Json EXCEPT !.error = e, !.id = i[1], !.permalink_url = i[2],
                !.success = s[1], !.post_id = s[2]] :
     e \in {"absent", "generic"}, i \in IdParts, s \in SuccessParts}

\* the answers to a pass-through call and to the page listing
PassThroughResponses ==
  {Failure} \cup {[Json EXCEPT !.error = e] : e \in {"absent", "generic"}}

PagesResponses ==
  {Failure, [Json EXCEPT !.error = "generic"]} \cup
  {[Json EXCEPT !.data = n, !.instagram_business_account = a] :
     n \in 0..1, a \in {"absent", "present", "exception"}}

(***************************************************************************)
(* Results.  A result is the dictionary an invocation returns, with the    *)
(* keys the claims read; "absent" / Absent is a key the dictionary does    *)
(* not carry.                                                              *)
(*   kind "result"          a dictionary built by a FacebookService method *)
(*        "error_record"    the dispatcher's {"error": ...}                *)
(*        "raised"          an exception leaving the dispatcher            *)
(*        "error_response"  what lambda_handler makes of such an exception *)
(*        "raw"             the decoded response, returned as it is        *)
(*        "list"            the list of pages of get_facebook_pages        *)
(*        "none"            nothing has been returned yet                  *)
(***************************************************************************)
BaseResult ==
  [kind |-> "result", status |-> "absent", phase |-> "absent",
   platform |-> "absent", page_id |-> "absent", instagram_id |-> "absent",
   video_id |-> Absent, creation_id |-> Absent, media_id |-> Absent,
   error_details |-> "absent", error |-> "absent",
   attempt |-> Absent, publish_attempt |-> Absent]

NoResult == [BaseResult EXCEPT !.kind = "none"]

Out(res, n) == [res |-> res, calls |-> n]

\* the  except Exception  block of the four phase operations
ExceptionResult(platform, phase) ==
  [BaseResult EXCEPT !.status = "error", !.platform = platform,
                     !.error_details = "exception", !.phase = phase]

(***************************************************************************)
(* FacebookService.init_reel_upload.  r is the answer to the create /      *)
(* upload-start call, should the operation make it.                        *)
(***************************************************************************)
\* the phase tag of an error of the facebook upload-start call
\* (the variant: tagged like the errors of the except block)
StartPhaseAsInitialization == "initialization"

StartPhase == "start"

\* what the remote platform and the caller have seen of the init invocations
\* so far: the ids of the upload sessions the platform created, in order, and
\* the ids and the inputs of the init invocations that returned pending
NoSessions == [created |-> <<>>, returned |-> <<>>, inputs |-> <<>>]

\* video_id = start_result.get('video_id') of the facebook branch
\* (the variant: once a session exists its id is handed out again)
FacebookVideoIdOfEarlierSession(r) ==
  IF sessions.returned # <<>> THEN sessions.returned[1] ELSE r.video_id

FacebookVideoId(r) == r.video_id

\* "video_id": create_resp["id"] of the instagram branch
\* (the variant: the video_id key is read, as the facebook branch does)
InstagramVideoIdFromVideoKey(r) == r.video_id

InstagramVideoId(r) == r.id

init_reel_upload(page_id, page_access_token, description, video_url, platform, r) ==
  IF platform = "none"
  THEN \* None.lower() raises inside the try block
       Out(ExceptionResult(platform, "initialization"), 0)
  ELSE IF Lower(platform) = "instagram"
  THEN IF page_id = ""
       THEN Out([BaseResult EXCEPT !.status = "error", !.platform = platform,
                   !.error_details = "instagram_id_required",
                   !.phase = "initialization"], 0)
       ELSE IF r.kind = "exception"
       THEN Out(ExceptionResult(platform, "initialization"), 1)
       ELSE IF r.id = 0
       THEN Out([BaseResult EXCEPT !.status = "error", !.platform = platform,
                   !.instagram_id = page_id,
                   !.error_details = "create_response",
                   !.phase = "media_creation"], 1)
       ELSE Out([BaseResult EXCEPT !.status = "pending", !.platform = platform,
                   !.instagram_id = page_id,
                   !.creation_id = r.id, !.video_id = InstagramVideoId(r),
                   !.phase = "initialized"], 1)
  ELSE IF r.kind = "exception"
       THEN Out(ExceptionResult(platform, "initialization"), 1)
       ELSE IF r.error # "absent"
       THEN Out([BaseResult EXCEPT !.status = "error", !.platform = platform,
                   !.page_id = page_id, !.error_details = "platform_error",
                   !.phase = StartPhase], 1)
       ELSE IF FacebookVideoId(r) = 0
       THEN Out([BaseResult EXCEPT !.status = "error", !.platform = platform,
                   !.page_id = page_id, !.error_details = "missing_video_id",
                   !.phase = StartPhase], 1)
       ELSE Out([BaseResult EXCEPT !.status = "pending", !.platform = platform,
                   !.page_id = page_id, !.video_id = FacebookVideoId(r),
                   !.phase = "initialized"], 1)

\* FacebookService.post_reel: init_reel_upload with the default platform;
\* the message it adds is not a key the model keeps
post_reel(page_id, page_access_token, description, video_url, r) ==
  init_reel_upload(page_id, page_access_token, description, video_url, "facebook", r)

(***************************************************************************)
(* FacebookService.upload_hosted_file.                                     *)
(***************************************************************************)
\* file_url.startswith('https://')
StartsWithHttps(file_url) == file_url.scheme = "https://"

\* 'fbcdn.net' in urlparse(file_url).netloc.lower()
NetlocHasFbcdn(file_url) == Contains(LowerSeq(file_url.netloc), FbCdn)

\* if platform.lower() == "instagram" of upload_hosted_file
\* (the variant: the platform is compared as it is written)
UploadIsForInstagramAsWritten(platform) == platform = "instagram"

UploadIsForInstagram(platform) == Lower(platform) = "instagram"

upload_hosted_file(page_id, page_access_token, video_id, file_url, platform, r) ==
  IF platform = "none"
  THEN Out(ExceptionResult(platform, "upload_hosted_file"), 0)
  ELSE IF UploadIsForInstagram(platform)
  THEN Out([BaseResult EXCEPT !.status = "success", !.platform = platform,
              !.phase = "upload_skipped_for_instagram"], 0)
  ELSE IF ~StartsWithHttps(file_url)
  THEN Out([BaseResult EXCEPT !.status = "error", !.platform = platform,
              !.page_id = page_id, !.video_id = video_id,
              !.error_details = "https_required",
              !.phase = "upload_hosted_file"], 0)
  ELSE IF NetlocHasFbcdn(file_url)
  THEN Out([BaseResult EXCEPT !.status = "error", !.platform = platform,
              !.page_id = page_id, !.video_id = video_id,
              !.error_details = "fbcdn_not_supported",
              !.phase = "upload_hosted_file"], 0)
  ELSE IF r.kind = "exception"
  THEN Out(ExceptionResult(platform, "upload_hosted_file"), 1)
  ELSE IF r.success = "true"
  THEN Out([BaseResult EXCEPT !.status = "success", !.platform = platform,
              !.page_id = page_id, !.video_id = video_id,
              !.phase = "file_uploaded"], 1)
  ELSE Out([BaseResult EXCEPT !.status = "error", !.platform = platform,
              !.page_id = page_id, !.video_id = video_id,
              !.error_details = IF r.error # "absent" THEN "platform_error"
                                                     ELSE "unknown_error",
              !.phase = "upload_hosted_file"], 1)

(***************************************************************************)
(* FacebookService.check_reel_upload_status.                               *)
(***************************************************************************)
\* the unified status for an instagram container's status_code
\* (the variant: the ERROR code is not told from a container in progress)
InstagramStatusErrorAsProcessing(status_code) ==
  IF status_code = "FINISHED" THEN "ready" ELSE "processing"

InstagramStatus(status_code) ==
  IF status_code = "FINISHED" THEN "ready"
  ELSE IF status_code = "ERROR" THEN "error"
  ELSE "processing"

\* the unified status for a facebook video's video_status
FacebookStatus(video_status) ==
  IF video_status = "ready" THEN "ready"
  ELSE IF video_status = "error" THEN "error"
  ELSE "processing"

\* the status given when the answer has neither an error nor a status field
\* (the variant: such an answer is taken for a video still in processing)
StatusWithoutFieldAsProcessing == "processing"

StatusWithoutField == "unknown"

\* the phase tag that goes with a unified status
StatusPhase(status, platform) ==
  IF status = "ready" THEN "video_ready"
  ELSE IF status = "processing" THEN "awaiting_ready"
  ELSE IF Lower(platform) = "instagram" THEN "processing"
  ELSE "upload"

check_reel_upload_status(page_id, page_access_token, video_id, platform, r) ==
  IF platform = "none"
  THEN Out(ExceptionResult(platform, "check_status"), 0)
  ELSE IF Lower(platform) = "instagram"
  THEN IF video_id = 0
       THEN Out([BaseResult EXCEPT !.status = "error", !.platform = platform,
                   !.instagram_id = page_id,
                   !.error_details = "creation_id_required",
                   !.phase = "check_status"], 0)
       ELSE IF r.kind = "exception"
       THEN Out(ExceptionResult(platform, "check_status"), 1)
       ELSE IF r.error # "absent"
       THEN Out([BaseResult EXCEPT !.status = "error", !.platform = platform,
                   !.instagram_id = page_id, !.creation_id = video_id,
                   !.error_details = "platform_error",
                   !.phase = "check_status"], 1)
       ELSE IF r.status_code # "absent"
       THEN LET st == InstagramStatus(r.status_code)
            IN  Out([BaseResult EXCEPT !.status = st, !.platform = platform,
                       !.instagram_id = page_id, !.creation_id = video_id,
                       !.error_details = IF st = "error" THEN "processing_failed"
                                                         ELSE "absent",
                       !.phase = StatusPhase(st, platform)], 1)
       ELSE Out([BaseResult EXCEPT !.status = StatusWithoutField,
                   !.platform = platform,
                   !.instagram_id = page_id, !.creation_id = video_id,
                   !.phase = "check_status"], 1)
  ELSE IF r.kind = "exception"
       THEN Out(ExceptionResult(platform, "check_status"), 1)
       ELSE IF r.error # "absent"
       THEN Out([BaseResult EXCEPT !.status = "error", !.platform = platform,
                   !.page_id = page_id, !.video_id = video_id,
                   !.error_details = "platform_error",
                   !.phase = "check_status"], 1)
       ELSE IF r.status = "not_a_dict"
       THEN \* status_result['status'].get raises
            Out(ExceptionResult(platform, "check_status"), 1)
       ELSE IF r.status # "absent"
       THEN LET st == FacebookStatus(r.status)
            IN  Out([BaseResult EXCEPT !.status = st, !.platform = platform,
                       !.page_id = page_id, !.video_id = video_id,
                       !.error_details = IF st = "error" THEN "processing_failed"
                                                         ELSE "absent",
                       !.phase = StatusPhase(st, platform)], 1)
       ELSE Out([BaseResult EXCEPT !.status = StatusWithoutField,
                   !.platform = platform,
                   !.page_id = page_id, !.video_id = video_id,
                   !.phase = "check_status"], 1)

(***************************************************************************)
(* FacebookService.publish_reel.                                           *)
(***************************************************************************)
\* "id" in publish_resp
\* (the variant: an id counts only in an answer without an error key)
InstagramPublishSucceededNoError(r) == r.id # 0 /\ r.error = "absent"

InstagramPublishSucceeded(r) == r.id # 0

\* 'success' in finish_result and finish_result['success'] is True,
\* or else 'id' in finish_result
\* (the variant: the  elif 'id' in finish_result  branch is missing)
FacebookPublishSucceededNoId(r) == r.success = "true"

FacebookPublishSucceeded(r) == r.success = "true" \/ r.id # 0

\* the phase tag of a successful publish
\* (the variant: the tag of the error branches)
PublishedPhaseAsPublish == "publish"

PublishedPhase == "published"

\* the success dictionary of the instagram branch
\* (the variant: the new media id is returned as the creation_id too)
InstagramPublishedMediaAsCreation(instagram_id, creation_id, platform, r) ==
  [BaseResult EXCEPT !.status = "success", !.platform = platform,
     !.instagram_id = instagram_id, !.media_id = r.id,
     !.creation_id = r.id, !.phase = "published"]

InstagramPublished(instagram_id, creation_id, platform, r) ==
  [BaseResult EXCEPT !.status = "success", !.platform = platform,
     !.instagram_id = instagram_id, !.media_id = r.id,
     !.creation_id = creation_id, !.phase = PublishedPhase]

publish_reel(page_id, page_access_token, video_id, description, platform, r) ==
  IF platform = "none"
  THEN Out(ExceptionResult(platform, "publish"), 0)
  ELSE IF Lower(platform) = "instagram"
  THEN IF page_id = "" \/ video_id = 0
       THEN Out([BaseResult EXCEPT !.status = "error", !.platform = platform,
                   !.error_details = "instagram_id_and_creation_id_required",
                   !.phase = "publish"], 0)
       ELSE IF r.kind = "exception"
       THEN Out(ExceptionResult(platform, "publish"), 1)
       ELSE IF InstagramPublishSucceeded(r)
       THEN Out(InstagramPublished(page_id, video_id, platform, r), 1)
       ELSE Out([BaseResult EXCEPT !.status = "error", !.platform = platform,
                   !.instagram_id = page_id, !.creation_id = video_id,
                   !.error_details = "publish_response",
                   !.phase = "publish"], 1)
  ELSE IF r.kind = "exception"
       THEN Out(ExceptionResult(platform, "publish"), 1)
       ELSE IF FacebookPublishSucceeded(r)
       THEN Out([BaseResult EXCEPT !.status = "success", !.platform = platform,
                   !.page_id = page_id, !.video_id = video_id,
                   !.phase = PublishedPhase], 1)
       ELSE Out([BaseResult EXCEPT !.status = "error", !.platform = platform,
                   !.page_id = page_id, !.video_id = video_id,
                   !.error_details = IF r.error # "absent" THEN "platform_error"
                                                          ELSE "empty_error",
                   !.phase = "publish"], 1)

(***************************************************************************)
(* FacebookService.post_to_instagram: create the media container, for a    *)
(* video wait for it to be processed, publish it; all in one invocation.   *)
(***************************************************************************)
\* for i in range(5)
PollLimit == 5

\* the status loop from its i-th round on: each round sleeps, then asks for
\* the container's status_code; codes are the answers in order
RECURSIVE StatusLoop(_, _)
StatusLoop(codes, i) ==
  IF i > PollLimit THEN [outcome |-> "exhausted", sleeps |-> PollLimit]
  ELSE IF codes[i] = "exception" THEN [outcome |-> "exception", sleeps |-> i]
  ELSE IF codes[i] = "FINISHED" THEN [outcome |-> "finished", sleeps |-> i]
  ELSE IF codes[i] = "ERROR" THEN [outcome |-> "error", sleeps |-> i]
  ELSE StatusLoop(codes, i + 1)

\* a result with the number of rounds slept
Slept(res, n, k) == [res |-> res, calls |-> n, sleeps |-> k]

InstagramPostError(details) ==
  [BaseResult EXCEPT !.status = "error", !.error_details = details]

\* the publish call and the return; n calls and k sleeps were made before
PublishContainer(r, n, k) ==
  IF r.publish = "exception" THEN Slept(InstagramPostError("exception"), n + 1, k)
  ELSE Slept([BaseResult EXCEPT
                !.status = IF r.publish = "id" THEN "success" ELSE "error",
                !.creation_id = r.id], n + 1, k)

\* the status loop of a video and what follows it; n calls were made before
AwaitContainer(r, n, loop) ==
  IF loop.outcome = "exception"
  THEN Slept(InstagramPostError("exception"), n + loop.sleeps, loop.sleeps)
  ELSE IF loop.outcome = "error"
  THEN Slept(InstagramPostError("processing"), n + loop.sleeps, loop.sleeps)
  ELSE PublishContainer(r, n + loop.sleeps, loop.sleeps)

\* from the create call on; n is the number of calls made before it
CreateContainer(mediaType, r, n) ==
  IF r.kind = "exception" THEN Slept(InstagramPostError("exception"), n + 1, 0)
  ELSE IF r.id = 0 THEN Slept(InstagramPostError("media"), n + 1, 0)
  ELSE IF mediaType = "video" THEN AwaitContainer(r, n + 1, StatusLoop(r.codes, 1))
  ELSE PublishContainer(r, n + 1, 0)

post_to_instagram(instagram_id, page_access_token, caption, mediaType, mm_url, r) ==
  IF mediaType = "video" /\ mm_url # NoUrl /\ r.head = "exception"
  THEN Slept(InstagramPostError("exception"), 1, 0)
  ELSE IF mediaType \in {"video", "image"} /\ mm_url = NoUrl
  THEN Slept(InstagramPostError("missing_url"), 0, 0)
  ELSE IF mediaType \notin {"video", "image"} /\ caption = ""
  THEN Slept(InstagramPostError("missing_caption"), 0, 0)
  ELSE CreateContainer(mediaType, r, IF mediaType = "video" THEN 1 ELSE 0)

(***************************************************************************)
(* The dispatcher: app.py, handle_step_function_request and                *)
(* lambda_handler.  An event is the dictionary of a direct invocation.     *)
(***************************************************************************)
NoEvent ==
  [action |-> "none", page_id |-> "", page_access_token |-> "",
   video_id |-> 0, message |-> "", mm_url |-> NoUrl, platform |-> "none",
   attempt |-> Absent, publish_attempt |-> Absent,
   creation_id |-> 0, instagram_id |-> "",
   mediaType |-> "absent", social_media |-> "absent"]

\* return {"error": "Missing required parameters: ..."}
ErrorRecord ==
  [BaseResult EXCEPT !.kind = "error_record", !.error = "missing_parameters"]

\* an exception leaving handle_step_function_request
Raised(what) == [BaseResult EXCEPT !.kind = "raised", !.error = what]

\* The pass-through calls of the Graph API client; r is the answer to the
\* operation's outbound call.
\* response = requests.get(...); return response.json()
\* no try block: a failure of the call leaves the operation as an exception
PassThrough(r) ==
  IF r.kind = "exception" THEN Out(Raised("RequestException"), 1)
  ELSE Out([BaseResult EXCEPT !.kind = "raw", !.error = r.error], 1)

get_user_access_token(auth_code, redirect_uri, r) == PassThrough(r)

extend_user_access_token(short_lived_token, r) == PassThrough(r)

get_page_feed(page_id, page_access_token, r) == PassThrough(r)

\* whatever the media type, one requests.post and its decoded response
post_to_facebook_page(page_id, page_access_token, message, r) == PassThrough(r)

\* the page list, then one call per page for its instagram account
get_facebook_pages(user_access_token, r) ==
  IF r.kind = "exception" THEN Out(Raised("RequestException"), 1)
  ELSE IF r.data = Absent
  THEN Out([BaseResult EXCEPT !.kind = "error_record", !.error = "response"], 1)
  ELSE IF r.data > 0 /\ r.instagram_business_account = "exception"
  THEN Out(Raised("RequestException"), 2)
  ELSE Out([BaseResult EXCEPT !.kind = "list"], 1 + r.data)

\* the guards of the actions' required parameters
\* (the variant: the description is not among the required ones)
MissingInitParametersNoDescription(ev) ==
  ev.page_id = "" \/ ev.page_access_token = "" \/ ev.mm_url = NoUrl

MissingInitParameters(ev) ==
  ev.page_id = "" \/ ev.page_access_token = "" \/ ev.message = "" \/ ev.mm_url = NoUrl

MissingUploadParameters(ev) ==
  ev.page_id = "" \/ ev.page_access_token = "" \/ ev.video_id = 0 \/ ev.mm_url = NoUrl

MissingCheckParameters(ev) ==
  ev.page_id = "" \/ ev.page_access_token = "" \/ ev.video_id = 0

MissingPublishParameters(ev) ==
  ev.page_id = "" \/ ev.page_access_token = "" \/ ev.video_id = 0 \/ ev.message = ""

handle_step_function_request(ev, r) ==
  CASE ev.action = "post_reel" ->
         IF MissingInitParameters(ev) THEN Out(ErrorRecord, 0)
         ELSE post_reel(ev.page_id, ev.page_access_token, ev.message, ev.mm_url, r)
    [] ev.action = "init_reel_upload" ->
         IF MissingInitParameters(ev) THEN Out(ErrorRecord, 0)
         ELSE init_reel_upload(ev.page_id, ev.page_access_token, ev.message,
                               ev.mm_url, ev.platform, r)
    [] ev.action = "upload_hosted_file" ->
         IF MissingUploadParameters(ev) THEN Out(ErrorRecord, 0)
         ELSE upload_hosted_file(ev.page_id, ev.page_access_token, ev.video_id,
                                 ev.mm_url, ev.platform, r)
    [] ev.action = "check_reel_upload_status" ->
         IF MissingCheckParameters(ev) THEN Out(ErrorRecord, 0)
         ELSE check_reel_upload_status(ev.page_id, ev.page_access_token,
                                       ev.video_id, ev.platform, r)
    [] ev.action = "publish_reel" ->
         IF MissingPublishParameters(ev) THEN Out(ErrorRecord, 0)
         ELSE publish_reel(ev.page_id, ev.page_access_token, ev.video_id,
                           ev.message, ev.platform, r)
    [] ev.action = "check_instagram_media_status" ->
         IF ev.creation_id = 0 \/ ev.page_access_token = ""
         THEN Out(ErrorRecord, 0)
         ELSE \* FacebookService has no check_instagram_media_status
              Out(Raised("AttributeError"), 0)
    [] ev.action = "publish_instagram_media" ->
         IF ev.instagram_id = "" \/ ev.creation_id = 0 \/ ev.page_access_token = ""
         THEN Out(ErrorRecord, 0)
         ELSE \* FacebookService has no publish_instagram_media
              Out(Raised("AttributeError"), 0)
    [] ev.action = "post_to_page" ->
         IF ev.page_id = "" \/ ev.page_access_token = "" \/ ev.message = ""
         THEN Out(ErrorRecord, 0)
         ELSE IF ev.social_media = "Instagram"
         THEN post_to_instagram(ev.page_id, ev.page_access_token, ev.message,
                                ev.mediaType, ev.mm_url, r)
         ELSE post_to_facebook_page(ev.page_id, ev.page_access_token,
                                    ev.message, r)
    [] ev.action = "get_pages" ->
         \* event.get('userToken') reaches the service unchecked
         get_facebook_pages(ev.page_access_token, r)
    [] ev.action = "extend_token" ->
         \* event.get('token') reaches the service unchecked
         extend_user_access_token(ev.page_access_token, r)
    [] ev.action = "get_access_token" ->
         \* event.get('authCode'), event.get('redirectUri'), unchecked
         get_user_access_token(ev.page_id, ev.page_access_token, r)
    [] OTHER -> Out(Raised("ValueError"), 0)

\* lambda_handler on a direct invocation: an exception becomes
\* response_helper.create_error_response(str(e))
lambda_handler(ev, r) ==
  LET out == handle_step_function_request(ev, r)
  IN  IF out.res.kind = "raised"
      THEN Out([out.res EXCEPT !.kind = "error_response"], out.calls)
      ELSE out

(***************************************************************************)
(* The events of each action.                                              *)
(***************************************************************************)
\* an event misses at most one of its parameters
B(missing) == IF missing THEN 1 ELSE 0

GoodUrl == [scheme |-> "https://", netloc |-> <<"x", ".", "net">>]

InitEvents(action) ==
  {[NoEvent EXCEPT !.action = action, !.page_id = p, !.page_access_token = t,
                   !.message = d, !.mm_url = u, !.platform = pf] :
     <<p, t, d, u>> \in {x \in PageIds \X Tokens \X Descriptions \X {NoUrl, GoodUrl} :
        B(x[1] = "") + B(x[2] = "") + B(x[3] = "") + B(x[4] = NoUrl) <= 1},
     pf \in Platforms}

UploadEvents(urls) ==
  {[NoEvent EXCEPT !.action = "upload_hosted_file", !.page_id = p,
                   !.page_access_token = t, !.video_id = v,
                   !.mm_url = u, !.platform = pf] :
     <<p, t, v, u>> \in {x \in PageIds \X Tokens \X VideoIds \X urls :
        B(x[1] = "") + B(x[2] = "") + B(x[3] = 0) + B(x[4] = NoUrl) <= 1},
     pf \in Platforms}

CheckEvents ==
  {[NoEvent EXCEPT !.action = "check_reel_upload_status", !.page_id = p,
                   !.page_access_token = t, !.video_id = v,
                   !.platform = pf, !.attempt = a] :
     <<p, t, v>> \in {x \in PageIds \X Tokens \X VideoIds :
        B(x[1] = "") + B(x[2] = "") + B(x[3] = 0) <= 1},
     pf \in Platforms, a \in Attempts}

PublishEvents ==
  {[NoEvent EXCEPT !.action = "publish_reel", !.page_id = p,
                   !.page_access_token = t, !.video_id = v, !.message = d,
                   !.platform = pf, !.publish_attempt = a] :
     <<p, t, v, d>> \in {x \in PageIds \X Tokens \X VideoIds \X Descriptions :
        B(x[1] = "") + B(x[2] = "") + B(x[3] = 0) + B(x[4] = "") <= 1},
     pf \in Platforms, a \in Attempts}

InstagramMediaEvents(action) ==
  {[NoEvent EXCEPT !.action = action, !.instagram_id = p,
                   !.page_access_token = t, !.creation_id = v,
                   !.attempt = a, !.publish_attempt = a] :
     <<p, t, v>> \in {x \in PageIds \X Tokens \X VideoIds :
        B(x[1] = "") + B(x[2] = "") + B(x[3] = 0) <= 1},
     a \in Attempts}

\* the events of the actions that take a token (userToken, token) or an
\* authorization code and a redirect URI, carried in the fields
\* page_access_token, and page_id and page_access_token; "" is an absent key
TokenEvents(action) ==
  {[NoEvent EXCEPT !.action = action, !.page_access_token = t] : t \in Tokens}

AccessTokenEvents ==
  {[NoEvent EXCEPT !.action = "get_access_token", !.page_id = c,
                   !.page_access_token = u] :
     c \in PageIds, u \in Tokens}

\* the events of post_to_page; mediaType "absent": the default False;
\* social_media "absent": the default 'Facebook'
MediaTypes == {"video", "image", "absent"}

PostEvents ==
  {[NoEvent EXCEPT !.action = "post_to_page", !.page_id = x[1],
                   !.page_access_token = x[2], !.message = x[3],
                   !.mediaType = mt, !.mm_url = u, !.social_media = sm] :
     x \in {y \in PageIds \X Tokens \X Descriptions :
              B(y[1] = "") + B(y[2] = "") + B(y[3] = "") <= 1},
     mt \in MediaTypes, u \in {NoUrl, GoodUrl},
     sm \in {"Facebook", "Instagram", "absent"}}

\* the answers to the status requests of one invocation: in progress until
\* the container is finished, in error, the request fails, or the rounds
\* are used up
StatusRuns ==
  {[i \in 1..(k + 1) |-> IF i <= k THEN "IN_PROGRESS" ELSE last] :
     k \in 0..(PollLimit - 1), last \in {"FINISHED", "ERROR", "exception"}} \cup
  {[i \in 1..PollLimit |-> "IN_PROGRESS"]}

\* the answers an invocation of post_to_page can get, those of the requests
\* it does not make being "unasked"
PostAnswersFor(ev) ==
  IF lambda_handler(ev, Failure).calls = 0 THEN {NoResp}
  ELSE IF ev.social_media # "Instagram" THEN PassThroughResponses
  ELSE {r \in {[NoResp EXCEPT !.kind = k, !.id = i, !.head = h, !.codes = cs,
                              !.publish = pb] :
                 k \in {"json", "exception"}, i \in 0..1,
                 h \in {"ok", "exception", "unasked"},
                 cs \in StatusRuns \cup {<<>>},
                 pb \in {"id", "no_id", "exception", "unasked"}} :
          /\ r.head # "unasked" <=> ev.mediaType = "video"
          /\ (r.head = "exception" \/ r.kind = "exception") => r.id = 0
          /\ r.codes # <<>>
               <=> (ev.mediaType = "video" /\ r.head = "ok" /\ r.id # 0)
          /\ r.publish # "unasked"
               <=> /\ r.id # 0
                   /\ r.codes # <<>> => r.codes[Len(r.codes)] \in {"FINISHED", "IN_PROGRESS"}
          /\ r.head = "exception" => r.kind = "exception"}

\* an event whose action the dispatcher does not know, or without action
UnknownEvents ==
  {[NoEvent EXCEPT !.action = a, !.page_id = "p1", !.page_access_token = "tok"] :
     a \in {"unknown", "absent"}}

(***************************************************************************)
(* Live streams: create_live_stream and extract_stream_details.  A stream  *)
(* URL is a text, modelled as the sequence of its pieces; the pieces       *)
(* "://", "/", "?" and "#" are the delimiters urlparse looks for.  A URL   *)
(* is written from its parts and parsed back from the text.                *)
(***************************************************************************)
\* a path has at most MaxPath pieces
MaxPath == 4

StreamSchemes == {"rtmps", "RTMPS"}
StreamHosts == {"live-api-s.facebook.com:443"}
PathPieces == {"/", "rtmp", "123"}
\* no query, an empty one, a query
StreamQueries == {<<>>, <<"?">>, <<"?", "s_bl=1">>}
StreamFragments == {<<>>, <<"#", "t">>}

\* a path is empty or starts with a slash
StreamUrlParts ==
  [scheme : StreamSchemes, netloc : StreamHosts,
   path : {p \in SeqsUpTo(PathPieces, MaxPath) : p = <<>> \/ p[1] = "/"},
   query : StreamQueries, fragment : StreamFragments]

\* the text of a URL
UrlText(u) == <<u.scheme, "://", u.netloc>> \o u.path \o u.query \o u.fragment

\* the example of the documentation
ExampleUrl ==
  <<"rtmps", "://", "live-api-s.facebook.com:443", "/", "rtmp", "/", "123",
    "?", "s_bl=1">>

\* str.lower() on a scheme
LowerScheme(sch) == IF sch = "RTMPS" THEN "rtmps" ELSE sch

\* the first position from i on of a piece of ds in t, Len(t) + 1 if none
RECURSIVE IndexOf(_, _, _)
IndexOf(t, ds, i) ==
  IF i > Len(t) THEN Len(t) + 1
  ELSE IF t[i] \in ds THEN i
  ELSE IndexOf(t, ds, i + 1)

\* urllib.parse.urlparse: the scheme up to "://", in lower case; the netloc
\* up to the first of / ? #; the fragment after the first #; the query
\* after the first ? before it; the path is what is left.  (rtmps is not a
\* scheme whose path parameters urlparse splits off.)
PathAndQuery(t, from, hash) ==
  [path |-> SubSeq(t, from, IndexOf(t, {"?", "#"}, from) - 1),
   query |-> SubSeq(t, IndexOf(t, {"?", "#"}, from) + 1, hash - 1),
   fragment |-> SubSeq(t, hash + 1, Len(t))]

urlparse(t) ==
  IF Len(t) >= 2 /\ t[2] = "://"
  THEN [scheme |-> LowerScheme(t[1]),
        netloc |-> SubSeq(t, 3, IndexOf(t, {"/", "?", "#"}, 3) - 1),
        rest |-> PathAndQuery(t, IndexOf(t, {"/", "?", "#"}, 3), IndexOf(t, {"#"}, 3))]
  ELSE [scheme |-> "", netloc |-> <<>>,
        rest |-> PathAndQuery(t, 1, IndexOf(t, {"#"}, 1))]

\* path.startswith('/rtmp/')
\* (the variant: the slash that ends the prefix is not asked for)
StartsWithRtmpNoSlash(path) ==
  Len(path) >= 2 /\ path[1] = "/" /\ path[2] = "rtmp"

StartsWithRtmp(path) ==
  Len(path) >= 3 /\ path[1] = "/" /\ path[2] = "rtmp" /\ path[3] = "/"

\* FacebookService.extract_stream_details on the parsed URL
StreamDetails(parsed) ==
  IF ~StartsWithRtmp(parsed.rest.path)
  THEN [raised |-> TRUE, server_url |-> <<>>, stream_key |-> <<>>]
  ELSE [raised |-> FALSE,
        server_url |-> <<parsed.scheme, "://">> \o parsed.netloc \o <<"/", "rtmp">>,
        stream_key |->
          SubSeq(parsed.rest.path, 4, Len(parsed.rest.path)) \o
            (IF parsed.rest.query # <<>> THEN <<"?">> \o parsed.rest.query
             ELSE <<>>)]

extract_stream_details(stream_url) == StreamDetails(urlparse(stream_url))

\* the answer to the live_videos call: "exception" (requests raises),
\* "not_ok" (response.ok is false) or "ok" with the decoded object: its id
\* (0: no id key), its stream_url (<<>>: no such key) and the first of its
\* stream_secondary_urls (<<>>: none)
LiveAnswer(kind, id, u, backup) ==
  [kind |-> kind, id |-> id, stream_url |-> u, secondary |-> backup]

SecondaryUrls ==
  {<<>>,
   <<"rtmps", "://", "live-api-s.facebook.com:443", "/", "rtmp", "/", "123">>,
   <<"rtmps", "://", "live-api-s.facebook.com:443", "/", "123">>}

\* the result of create_live_stream: kind "stream" (the stream destination)
\* or "error" ({"error": ...}); backup_stream_key <<>> is None
NoLiveResult ==
  [kind |-> "none", live_video_id |-> 0, server_url |-> <<>>,
   stream_key |-> <<>>, backup_stream_key |-> <<>>]

LiveError == [NoLiveResult EXCEPT !.kind = "error"]

\* the return of create_live_stream once both URLs are parsed
StreamDestination(r, main, backup) ==
  IF main.raised \/ (r.secondary # <<>> /\ backup.raised)
  THEN \* the ValueError is caught by the except block
       LiveError
  ELSE [NoLiveResult EXCEPT
          !.kind = "stream", !.live_video_id = r.id,
          !.server_url = main.server_url, !.stream_key = main.stream_key,
          !.backup_stream_key =
             IF r.secondary # <<>> THEN backup.stream_key ELSE <<>>]

\* FacebookService.create_live_stream
create_live_stream(page_id, page_access_token, r) ==
  IF r.kind # "ok" THEN LiveError
  ELSE IF r.id = 0 \/ r.stream_url = <<>> THEN LiveError
  ELSE StreamDestination(r, extract_stream_details(r.stream_url),
                         extract_stream_details(r.secondary))

\* no call of create_live_stream is in progress; parts: what the stream_url
\* of the answer was written from
NoLive ==
  [kind |-> "none", parts |-> <<>>, answer |-> LiveAnswer("none", 0, <<>>, <<>>),
   result |-> NoLiveResult]

(***************************************************************************)
(* The webhook endpoint: GET /webhook (verification) and POST /webhook     *)
(* (a page-subscription delivery, normalized by process_webhook_event and  *)
(* published event by event).                                              *)
(***************************************************************************)
\* a delivery carries at most MaxEntries entries and MaxChanges changes
MaxEntries == 2
MaxChanges == 2
\* "limit": 5 of the sibling-comments request
CommentsLimit == 5

\* the value of a change: the page's own comment and a user's comment, each
\* top-level (parent_id = post_id) and a reply, an edited comment, a new post
ChangeValues ==
  {[item |-> "comment", verb |-> "add", from_id |-> f, comment_id |-> "c2",
    post_id |-> "post1", parent_id |-> par] :
     f \in {"p1", "u1"}, par \in {"post1", "c1"}} \cup
  {[item |-> "comment", verb |-> "edited", from_id |-> "u1", comment_id |-> "c2",
    post_id |-> "post1", parent_id |-> "post1"],
   [item |-> "post", verb |-> "add", from_id |-> "u1", comment_id |-> "absent",
    post_id |-> "post1", parent_id |-> "absent"]}

Entries ==
  {[id |-> "p1", changes |-> cs] : cs \in SeqsUpTo(ChangeValues, MaxChanges)}

\* the (page id, value) pairs of the entries' changes, in the order the
\* nested loops of process_webhook_event visit them
RECURSIVE FlattenEntries(_)
FlattenEntries(entries) ==
  IF entries = <<>> THEN <<>>
  ELSE LET e == Head(entries)
       IN  [i \in 1..Len(e.changes) |-> [page_id |-> e.id, value |-> e.changes[i]]]
             \o FlattenEntries(Tail(entries))

\* the decoded body of a POST; object "absent": the body has no object key
Payloads ==
  {[object |-> o, entry |-> es] :
     o \in {"page", "user", "absent"},
     es \in {x \in SeqsUpTo(Entries, MaxEntries) :
               Len(FlattenEntries(x)) <= MaxChanges}}

\* a body json.loads cannot decode
NotJson == [object |-> "not_json", entry |-> <<>>]

(***************************************************************************)
(* What the environment answers while one change is processed:             *)
(*   token     the Token Store's answer, "" when it has none (or fails)    *)
(*   post      the post fetch: "ok", "request_exception" (requests raises  *)
(*             a RequestException) or "other_exception" (anything else is  *)
(*             raised, such as on a body that is not a JSON object)        *)
(*   thread    the parent / sibling-comments fetch: the same, or           *)
(*             "error_object" (the platform answers with an error object)  *)
(*   siblings  the number of comments under "data" in the siblings answer: *)
(*             none, as many as the request's limit, or one more           *)
(*   owner     the page-data fetch: "ok" or "exception"                    *)
(* "unasked": the lookup or fetch is not made.                             *)
(***************************************************************************)
Unasked ==
  [token |-> "unasked", post |-> "unasked", thread |-> "unasked",
   siblings |-> 0, owner |-> "unasked"]

PostAnswers == {"ok", "request_exception", "other_exception"}
ThreadAnswers == {"ok", "error_object", "request_exception", "other_exception"}
OwnerAnswers == {"ok", "exception"}
SiblingCounts == {0, CommentsLimit, CommentsLimit + 1}

\* def is_own_comment: return commenter_id == page_id
\* (the variant: the commenter is compared with the post, not with the page)
is_own_commentAgainstPost(commenter_id, page_id) == commenter_id = "post1"

is_own_comment(commenter_id, page_id) == commenter_id = page_id

\* the entry appended for a reply: the parent comment and its replies
\* (the variant: the parent's replies are not carried over)
ParentEntryWithoutReplies(parent_id, a) ==
  [id |-> parent_id, replies |-> "absent"]

ParentEntry(parent_id, a) ==
  [id |-> parent_id, replies |-> IF a.thread = "ok" THEN "data" ELSE "empty"]

\* comments_response.json().get('data', [])
\* (the variant: the list is cut to the limit that was requested)
SiblingsWithinLimit(a) ==
  IF a.thread = "ok"
  THEN [i \in 1..(IF a.siblings > CommentsLimit THEN CommentsLimit ELSE a.siblings) |->
          [id |-> "sibling", replies |-> "absent"]]
  ELSE <<>>

Siblings(a) ==
  IF a.thread = "ok"
  THEN [i \in 1..a.siblings |-> [id |-> "sibling", replies |-> "absent"]]
  ELSE <<>>

\* FacebookService._get_comment_thread_context; only a RequestException is
\* caught, and then the context built so far is returned
_get_comment_thread_context(post_id, comment_id, parent_id, is_top_level, page_access_token, a) ==
  LET thread_context ==
        [post_content |-> "none", comment_thread |-> <<>>,
         hierarchy |-> IF is_top_level THEN "top_level" ELSE "reply"]
      with_post == [thread_context EXCEPT !.post_content = "message"]
  IN  IF a.post = "request_exception"
      THEN [raised |-> FALSE, context |-> thread_context, fetches |-> 1]
      ELSE IF a.post = "other_exception"
      THEN [raised |-> TRUE, context |-> thread_context, fetches |-> 1]
      ELSE IF a.thread = "request_exception"
      THEN [raised |-> FALSE, context |-> with_post, fetches |-> 2]
      ELSE IF a.thread = "other_exception"
      THEN [raised |-> TRUE, context |-> with_post, fetches |-> 2]
      ELSE IF ~is_top_level
      THEN [raised |-> FALSE, fetches |-> 2,
            context |-> [with_post EXCEPT
                           !.comment_thread = <<ParentEntry(parent_id, a)>>]]
      ELSE [raised |-> FALSE, fetches |-> 2,
            context |-> [with_post EXCEPT !.comment_thread = Siblings(a)]]

\* the event of a change for which  _process_feed_event  returns None
NoEventInfo ==
  [item |-> "none", verb |-> "none", page_access_token |-> "",
   comment_id |-> "absent", post_id |-> "absent", parent_id |-> "absent",
   from_id |-> "absent", comment_level |-> "absent", owner_info |-> "absent",
   action |-> "absent",
   thread_context |-> [post_content |-> "none", comment_thread |-> <<>>,
                       hierarchy |-> "absent"]]

\* no event for the change: _process_feed_event returns None
\* (the variant: the stored token is looked up before the change is examined)
SkippedAfterLookup ==
  [raised |-> FALSE, emitted |-> FALSE, event |-> NoEventInfo,
   lookups |-> 1, fetches |-> 0]

Skipped ==
  [raised |-> FALSE, emitted |-> FALSE, event |-> NoEventInfo,
   lookups |-> 0, fetches |-> 0]

\* _process_feed_event from the thread context tc on: the owner's page data
\* is fetched and the event is built
EventWithContext(value, a, is_top_level, tc) ==
  IF tc.raised
  THEN [raised |-> TRUE, emitted |-> FALSE, event |-> NoEventInfo,
        lookups |-> 1, fetches |-> tc.fetches]
  ELSE IF a.owner = "exception"
  THEN \* get_page_data has no try block
       [raised |-> TRUE, emitted |-> FALSE, event |-> NoEventInfo,
        lookups |-> 1, fetches |-> tc.fetches + 1]
  ELSE [raised |-> FALSE, emitted |-> TRUE,
        lookups |-> 1, fetches |-> tc.fetches + 1,
        event |->
          [NoEventInfo EXCEPT
             !.item = value.item, !.verb = value.verb,
             !.page_access_token = a.token,
             !.comment_id = value.comment_id,
             !.post_id = value.post_id,
             !.parent_id = value.parent_id,
             !.from_id = value.from_id,
             !.thread_context = tc.context,
             !.comment_level = IF is_top_level THEN "top_level" ELSE "reply",
             !.owner_info = "page_data"]]

\* FacebookService._process_feed_event: the event (emitted: it is not None),
\* whether an exception leaves the method, and the Token Store lookups and
\* Graph API fetches made
_process_feed_event(value, page_id, a) ==
  IF value.item = "comment" /\ value.verb = "add"
  THEN IF is_own_comment(value.from_id, page_id)
       THEN Skipped
       ELSE EventWithContext(value, a, value.parent_id = value.post_id,
              _get_comment_thread_context(value.post_id, value.comment_id,
                value.parent_id, value.parent_id = value.post_id, a.token, a))
  ELSE Skipped

\* the answers a change can get: those of the lookups and fetches that
\* _process_feed_event makes for it, "unasked" for the others
AnswersFor(value, page_id) ==
  IF ~(value.item = "comment" /\ value.verb = "add")
       \/ is_own_comment(value.from_id, page_id)
  THEN {Unasked}
  ELSE {a \in [token : Tokens, post : PostAnswers,
               thread : ThreadAnswers \cup {"unasked"},
               siblings : SiblingCounts,
               owner : OwnerAnswers \cup {"unasked"}] :
          /\ a.thread = "unasked" <=> a.post # "ok"
          /\ a.siblings # 0 =>
               (a.thread = "ok" /\ value.parent_id = value.post_id)
          /\ a.owner = "unasked" <=>
               (a.post = "other_exception" \/ a.thread = "other_exception")}

\* the answers to a delivery's changes, one per change in the order of
\* processing; nothing is asked after a change that raised
RECURSIVE EnvsFor(_)
EnvsFor(flat) ==
  IF flat = <<>> THEN {<<>>}
  ELSE LET c == Head(flat)
           rest == Tail(flat)
       IN  UNION {{<<a>> \o e :
                     e \in IF _process_feed_event(c.value, c.page_id, a).raised
                           THEN {[i \in 1..Len(rest) |-> Unasked]}
                           ELSE EnvsFor(rest)} :
                  a \in AnswersFor(c.value, c.page_id)}

\* if 'object' not in payload or payload['object'] != 'page': raise
\* (the variant: only a present object key is compared)
IsPagePayloadOrUntyped(payload) == payload.object \in {"page", "absent"}

IsPagePayload(payload) == payload.object = "page"

\* the loops of process_webhook_event from change i on; log has one record
\* per change visited.  Visit is the loops' body for change i, out being
\* what _process_feed_event gives for it.
RECURSIVE ProcessChanges(_, _, _, _, _)
Visit(flat, env, i, processed_events, log, out) ==
  IF out.raised
  THEN [raised |-> TRUE, invalid |-> FALSE, processed_events |-> <<>>,
        log |-> Append(log, [page_id |-> flat[i].page_id, value |-> flat[i].value,
                             answers |-> env[i], lookups |-> out.lookups,
                             fetches |-> out.fetches, emitted |-> out.emitted,
                             event |-> out.event])]
  ELSE ProcessChanges(flat, env, i + 1,
         IF out.emitted THEN Append(processed_events, out.event)
         ELSE processed_events,
         Append(log, [page_id |-> flat[i].page_id, value |-> flat[i].value,
                      answers |-> env[i], lookups |-> out.lookups,
                      fetches |-> out.fetches, emitted |-> out.emitted,
                      event |-> out.event]))

ProcessChanges(flat, env, i, processed_events, log) ==
  IF i > Len(flat)
  THEN [raised |-> FALSE, invalid |-> FALSE,
        processed_events |-> processed_events, log |-> log]
  ELSE Visit(flat, env, i, processed_events, log,
             _process_feed_event(flat[i].value, flat[i].page_id, env[i]))

\* FacebookService.process_webhook_event
process_webhook_event(payload, env) ==
  IF ~IsPagePayload(payload)
  THEN [raised |-> TRUE, invalid |-> TRUE, processed_events |-> <<>>, log |-> <<>>]
  ELSE ProcessChanges(FlattenEntries(payload.entry), env, 1, <<>>, <<>>)

\* FacebookService.publish_to_eventbridge on put_events' outcome: the
\* response is returned, an exception is printed and raised again
\* (the variant: the exception is printed and not raised again)
publish_to_eventbridgeSwallowing(event_info, outcome) == "returned"

publish_to_eventbridge(event_info, outcome) ==
  IF outcome = "exception" THEN "raised" ELSE "returned"

\* put_events' outcomes for n events: "ack" up to the first exception,
\* nothing asked after it
PutEventsOutcomes(n) ==
  {[i \in 1..n |-> IF i < f THEN "ack" ELSE IF i = f THEN "exception" ELSE "unasked"] :
     f \in 1..(n + 1)}

\* the publishing loop of the POST handler from event k on
\* what remains published of the events before the one whose publishing
\* raised: the handler's except block answers and undoes nothing
\* (the variant: the events published before the failure are taken back)
KeptOnFailureNothing(published) == <<>>

KeptOnFailure(published) == published

RECURSIVE PublishAll(_, _, _, _)
PublishAll(processed_events, outcomes, k, published) ==
  IF k > Len(processed_events)
  THEN [raised |-> FALSE, published |-> published]
  ELSE LET event_info == [processed_events[k] EXCEPT !.action = "generate_comment_reply"]
       IN  IF publish_to_eventbridge(event_info, outcomes[k]) = "raised"
           THEN [raised |-> TRUE, published |-> KeptOnFailure(published)]
           ELSE PublishAll(processed_events, outcomes, k + 1,
                           Append(published, event_info))

\* a response of the endpoint; body "challenge": the challenge echoed,
\* "ack": {'success': True, 'processed_events': n}, "error": an error response
NoResponse == [statusCode |-> 0, body |-> "none", processed_events |-> Absent]

\* response_helper.create_error_response(message, status_code); Absent: no
\* status code is passed
create_error_response(status_code) ==
  [statusCode |-> status_code, body |-> "error", processed_events |-> Absent]

\* secrets['webhook_verify_token']
WebhookVerifyToken == "secret"

\* def verify_webhook: return verify_token == self.webhook_verify_token
\* (the variant: any token that is supplied verifies)
verify_webhookAnyToken(verify_token, webhook_verify_token) == verify_token # ""

verify_webhook(verify_token, webhook_verify_token) ==
  verify_token = webhook_verify_token

\* the query of a GET: present FALSE when queryStringParameters is None;
\* "" is an absent parameter
Queries ==
  {[present |-> FALSE, mode |-> "", verify_token |-> "", challenge |-> ""]} \cup
  {[present |-> TRUE, mode |-> m, verify_token |-> v, challenge |-> "c123"] :
     m \in {"subscribe", "unsubscribe", ""},
     v \in {"secret", "wrong", ""}}

\* GET /webhook
WebhookGetResponse(q) ==
  IF ~q.present
  THEN \* None.get raises; lambda_handler answers with an error response
       create_error_response(Absent)
  ELSE IF q.mode = "subscribe" /\ q.verify_token # ""
            /\ verify_webhook(q.verify_token, WebhookVerifyToken)
  THEN [statusCode |-> 200, body |-> "challenge", processed_events |-> Absent]
  ELSE create_error_response(403)

\* POST /webhook: the response, whether the payload was signalled invalid,
\* the events the normalizer returned, those published, and the log; pr is
\* what process_webhook_event gives and pub what the publishing loop gives
PostOutcome(pr, pub) ==
  IF pr.raised
  THEN [response |-> create_error_response(500), invalid |-> pr.invalid,
        processed_events |-> <<>>, published |-> <<>>, log |-> pr.log]
  ELSE [response |->
          IF pub.raised THEN create_error_response(500)
          ELSE [statusCode |-> 200, body |-> "ack",
                processed_events |-> Len(pr.processed_events)],
        invalid |-> FALSE, processed_events |-> pr.processed_events,
        published |-> pub.published, log |-> pr.log]

ProcessedAndPublished(pr, outcomes) ==
  PostOutcome(pr, PublishAll(pr.processed_events, outcomes, 1, <<>>))

WebhookPostOutcome(body, env, outcomes) ==
  IF body = NotJson
  THEN [response |-> create_error_response(500), invalid |-> FALSE,
        processed_events |-> <<>>, published |-> <<>>, log |-> <<>>]
  ELSE ProcessedAndPublished(process_webhook_event(body, env), outcomes)

(***************************************************************************)
(* The messaging path: FacebookService.process_messaging_webhook.  A       *)
(* messaging sub-event is its sender, its recipient and the set of the     *)
(* keys it carries besides them.                                           *)
(***************************************************************************)
\* a delivery carries at most MaxMessaging messaging sub-events
MaxMessaging == 2

\* a message, a postback, a delivery receipt, a read receipt, a message
\* echoed with a read key, and an opt-in (none of the four keys)
MessagingKeys ==
  {{"message"}, {"postback"}, {"delivery"}, {"read"}, {"message", "read"},
   {"optin"}}

MessagingEvents ==
  [sender_id : {"p1", "u1"}, recipient_id : {"p1"}, keys : MessagingKeys]

MessagingEntries ==
  {[id |-> "p1", messaging |-> ms] : ms \in SeqsUpTo(MessagingEvents, MaxMessaging)}

\* the (page id, sub-event) pairs in the order the nested loops visit them
RECURSIVE FlattenMessaging(_)
FlattenMessaging(entries) ==
  IF entries = <<>> THEN <<>>
  ELSE LET e == Head(entries)
       IN  [i \in 1..Len(e.messaging) |-> [page_id |-> e.id, event |-> e.messaging[i]]]
             \o FlattenMessaging(Tail(entries))

MessagingPayloads ==
  {[object |-> o, entry |-> es] :
     o \in {"page", "user", "absent"},
     es \in {x \in SeqsUpTo(MessagingEntries, MaxEntries) :
               Len(FlattenMessaging(x)) <= MaxMessaging}}

\* the if / elif chain over the sub-event's keys; "absent": no branch is
\* taken and the record gets no event_type key
EventType(keys) ==
  IF "message" \in keys THEN "message"
  ELSE IF "postback" \in keys THEN "postback"
  ELSE IF "delivery" \in keys THEN "delivery"
  ELSE IF "read" \in keys THEN "read"
  ELSE "absent"

\* the event_info of one messaging sub-event
MessagingRecord(page_id, messaging_event) ==
  [page_id |-> page_id, sender_id |-> messaging_event.sender_id,
   recipient_id |-> messaging_event.recipient_id,
   event_type |-> EventType(messaging_event.keys)]

\* the loops of process_messaging_webhook from sub-event i on
RECURSIVE AppendMessaging(_, _, _)
AppendMessaging(flat, i, processed_events) ==
  IF i > Len(flat) THEN processed_events
  ELSE AppendMessaging(flat, i + 1,
         Append(processed_events, MessagingRecord(flat[i].page_id, flat[i].event)))

process_messaging_webhook(payload) ==
  IF ~IsPagePayload(payload)
  THEN [raised |-> TRUE, processed_events |-> <<>>]
  ELSE [raised |-> FALSE,
        processed_events |-> AppendMessaging(FlattenMessaging(payload.entry), 1, <<>>)]

\* no webhook request is in progress
NoWebhook ==
  [kind |-> "none", query |-> [present |-> FALSE, mode |-> "", verify_token |-> "",
                               challenge |-> ""],
   payload |-> NotJson, env |-> <<>>, outcomes |-> <<>>,
   response |-> NoResponse, invalid |-> FALSE,
   processed_events |-> <<>>, published |-> <<>>, log |-> <<>>]

\* the event bus over a delivery and its redelivery: the events put_events
\* accepted so far, in order, the first delivery with its outcome, and
\* whether it has been delivered again
NoBus == [events |-> <<>>, first |-> NoWebhook, redelivered |-> FALSE]

(***************************************************************************)
(* What the caller observes over a sequence of invocations.  The core      *)
(* keeps nothing between invocations; these variables record the results.  *)
(*   lastPhase  the session phase the most recent result reports           *)
(*   sessId     the id the most recent successful init returned (0: none)  *)
(*   readyIds   the ids a check_status result has reported ready           *)
(*   oneSession the invocations so far are those of one session: one init, *)
(*              the first invocation, and then only invocations naming the *)
(*              id that init returned                                      *)
(*   inOrder    the caller has followed the protocol so far: init first,   *)
(*              upload and check_status with the id init returned,         *)
(*              check_status again only while processing, publish only on  *)
(*              the id reported ready, nothing after published or failed   *)
(*   initPlatform the platform of the most recent successful init          *)
(*   sinceInit  the number of invocations made since the most recent       *)
(*              successful init returned (2: two or more), Absent before   *)
(*              the first one                                              *)
(***************************************************************************)
InitActions == {"init_reel_upload", "post_reel"}
CheckActions == {"check_reel_upload_status", "check_instagram_media_status"}
PublishActions == {"publish_reel", "publish_instagram_media"}

\* the id an event names, and the id a result carries (Absent: none)
EventId(ev) ==
  IF ev.action \in {"check_instagram_media_status", "publish_instagram_media"}
  THEN ev.creation_id ELSE ev.video_id

ResultId(res) ==
  IF res.video_id # Absent THEN res.video_id ELSE res.creation_id

\* the session phase a result reports; a result whose phase tag names no
\* session phase (an upload result, an unknown status) reports no change
PhaseOf(res, prev) ==
  IF res.kind # "result" \/ res.status = "error" THEN "failed"
  ELSE IF res.phase = "initialized" THEN "initialized"
  ELSE IF res.phase = "awaiting_ready" THEN "processing"
  ELSE IF res.phase = "video_ready" THEN "ready"
  ELSE IF res.phase = "published" THEN "published"
  ELSE prev

Rank(phase) ==
  CASE phase = "uninitialized" -> 0
    [] phase = "initialized" -> 1
    [] phase = "processing" -> 2
    [] phase = "ready" -> 2
    [] phase = "published" -> 3
    [] phase = "failed" -> 4

SameSession(ev) ==
  \/ ev.action \in InitActions /\ lastPhase = "uninitialized"
  \/ ev.action \notin InitActions /\ sessId # 0 /\ EventId(ev) = sessId

FollowsProtocol(ev) ==
  \/ ev.action \in InitActions /\ lastPhase = "uninitialized"
  \/ ev.action = "upload_hosted_file" /\ lastPhase = "initialized"
       /\ sessId # 0 /\ EventId(ev) = sessId
  \/ ev.action \in CheckActions /\ lastPhase \in {"initialized", "processing"}
       /\ sessId # 0 /\ EventId(ev) = sessId
  \/ ev.action \in PublishActions /\ lastPhase = "ready"
       /\ sessId # 0 /\ EventId(ev) = sessId

\* one invocation of lambda_handler with event ev; r is the Graph API's
\* answer to the outbound call the invocation makes
Invoke(ev, r) ==
  LET out == lambda_handler(ev, r)
  IN  /\ req' = ev
      /\ result' = out.res
      /\ calls' = out.calls
      /\ resp' = r
      /\ lastPhase' = PhaseOf(out.res, lastPhase)
      /\ sessId' = IF ev.action \in InitActions /\ out.res.status = "pending"
                   THEN out.res.video_id ELSE sessId
      /\ readyIds' = IF out.res.status = "ready" /\ ResultId(out.res) # Absent
                     THEN readyIds \cup {ResultId(out.res)} ELSE readyIds
      /\ oneSession' = (oneSession /\ SameSession(ev))
      /\ inOrder' = (inOrder /\ FollowsProtocol(ev))
      /\ initPlatform' = IF ev.action \in InitActions /\ out.res.status = "pending"
                         THEN out.res.platform ELSE initPlatform
      /\ sinceInit' = IF ev.action \in InitActions /\ out.res.status = "pending"
                      THEN 0
                      ELSE IF sinceInit \in {Absent, 2} THEN sinceInit
                      ELSE sinceInit + 1
      /\ UNCHANGED <<wh, aux>>

\* the answers an invocation can receive: one of rs when it makes the
\* outbound call, none when it returns without calling
Answers(ev, rs) == IF lambda_handler(ev, Failure).calls > 0 THEN rs ELSE {NoResp}

\* no invocation is in progress: the previous one has returned
Idle == req = NoEvent

InitReelUpload ==
  /\ Idle
  /\ \E ev \in InitEvents("init_reel_upload") :
       \E r \in Answers(ev, InitResponses) : Invoke(ev, r)

PostReel ==
  /\ Idle
  /\ \E ev \in InitEvents("post_reel") :
       \E r \in Answers(ev, InitResponses) : Invoke(ev, r)

UploadHostedFile ==
  /\ Idle
  /\ \E ev \in UploadEvents(SomeUrls \cup {NoUrl}) :
       \E r \in Answers(ev, UploadResponses) : Invoke(ev, r)

CheckReelUploadStatus ==
  /\ Idle
  /\ \E ev \in CheckEvents :
       \E r \in Answers(ev, CheckResponses) : Invoke(ev, r)

PublishReel ==
  /\ Idle
  /\ \E ev \in PublishEvents :
       \E r \in Answers(ev, PublishResponses) : Invoke(ev, r)

CheckInstagramMediaStatus ==
  /\ Idle
  /\ \E ev \in InstagramMediaEvents("check_instagram_media_status") :
       Invoke(ev, NoResp)

PublishInstagramMedia ==
  /\ Idle
  /\ \E ev \in InstagramMediaEvents("publish_instagram_media") :
       Invoke(ev, NoResp)

\* the invocation is over: the caller has the result, and the core keeps
\* nothing of it (no state survives between invocations)
Return ==
  /\ ~Idle
  /\ req' = NoEvent
  /\ resp' = NoResp
  /\ calls' = 0
  /\ result' = NoResult
  /\ UNCHANGED <<lastPhase, sessId, readyIds, oneSession, inOrder,
                 initPlatform, sinceInit, wh, aux>>

Init ==
  /\ req = NoEvent
  /\ resp = NoResp
  /\ calls = 0
  /\ result = NoResult
  /\ lastPhase = "uninitialized"
  /\ sessId = 0
  /\ readyIds = {}
  /\ oneSession = TRUE
  /\ inOrder = TRUE
  /\ initPlatform = "none"
  /\ sinceInit = Absent
  /\ wh = NoWebhook
  /\ live = NoLive
  /\ sleeps = 0
  /\ sessions = NoSessions
  /\ bus = NoBus

Next ==
  \/ InitReelUpload
  \/ PostReel
  \/ UploadHostedFile
  \/ CheckReelUploadStatus
  \/ PublishReel
  \/ CheckInstagramMediaStatus
  \/ PublishInstagramMedia
  \/ Return

Spec == Init /\ [][Next]_vars

(***************************************************************************)
(* The operations of FacebookService called directly, one call each: the   *)
(* pass-through calls of the Graph API client and the four phase           *)
(* operations.  r is the answer to the operation's outbound call.          *)
(***************************************************************************)
PassThroughOps ==
  {"get_user_access_token", "extend_user_access_token", "get_page_feed",
   "post_to_facebook_page"}

\* the arguments of a direct call, as a record of the event's shape
ClientCalls ==
  {[NoEvent EXCEPT !.action = op, !.page_id = p, !.page_access_token = t] :
     op \in PassThroughOps \cup {"get_facebook_pages"},
     p \in PageIds, t \in Tokens} \cup
  {[NoEvent EXCEPT !.action = "init_reel_upload", !.page_id = p,
                   !.page_access_token = t, !.message = d, !.mm_url = GoodUrl,
                   !.platform = pf] :
     p \in PageIds, t \in Tokens, d \in Descriptions, pf \in Platforms} \cup
  {[NoEvent EXCEPT !.action = op, !.page_id = "p1", !.page_access_token = "tok",
                   !.message = "caption", !.mm_url = GoodUrl, !.video_id = v,
                   !.platform = pf] :
     op \in {"upload_hosted_file", "check_reel_upload_status", "publish_reel"},
     v \in Ids, pf \in {"facebook", "instagram"}}

\* the operation returns (or raises): out is its outcome, r the answer it got
Call(out, r) ==
  /\ result = NoResult
  /\ result' = out.res
  /\ calls' = out.calls
  /\ resp' = IF out.calls > 0 THEN r ELSE NoResp
  /\ UNCHANGED <<req, lastPhase, sessId, readyIds, oneSession, inOrder,
                 initPlatform, sinceInit, wh, aux>>

GetUserAccessToken ==
  /\ req.action = "get_user_access_token"
  /\ \E r \in PassThroughResponses :
       Call(get_user_access_token(req.page_id, req.page_access_token, r), r)

ExtendUserAccessToken ==
  /\ req.action = "extend_user_access_token"
  /\ \E r \in PassThroughResponses :
       Call(extend_user_access_token(req.page_access_token, r), r)

GetFacebookPages ==
  /\ req.action = "get_facebook_pages"
  /\ \E r \in PagesResponses :
       Call(get_facebook_pages(req.page_access_token, r), r)

GetPageFeed ==
  /\ req.action = "get_page_feed"
  /\ \E r \in PassThroughResponses :
       Call(get_page_feed(req.page_id, req.page_access_token, r), r)

PostToFacebookPage ==
  /\ req.action = "post_to_facebook_page"
  /\ \E r \in PassThroughResponses :
       Call(post_to_facebook_page(req.page_id, req.page_access_token,
                                  req.message, r), r)

InitReelUploadCall ==
  /\ req.action = "init_reel_upload"
  /\ \E r \in InitResponses :
       Call(init_reel_upload(req.page_id, req.page_access_token, req.message,
                             req.mm_url, req.platform, r), r)

UploadHostedFileCall ==
  /\ req.action = "upload_hosted_file"
  /\ \E r \in UploadResponses :
       Call(upload_hosted_file(req.page_id, req.page_access_token, req.video_id,
                               req.mm_url, req.platform, r), r)

CheckReelUploadStatusCall ==
  /\ req.action = "check_reel_upload_status"
  /\ \E r \in CheckResponses :
       Call(check_reel_upload_status(req.page_id, req.page_access_token,
                                     req.video_id, req.platform, r), r)

PublishReelCall ==
  /\ req.action = "publish_reel"
  /\ \E r \in PublishResponses :
       Call(publish_reel(req.page_id, req.page_access_token, req.video_id,
                         req.message, req.platform, r), r)

InitClient ==
  /\ req \in ClientCalls
  /\ resp = NoResp
  /\ calls = 0
  /\ result = NoResult
  /\ lastPhase = "uninitialized"
  /\ sessId = 0
  /\ readyIds = {}
  /\ oneSession = TRUE
  /\ inOrder = TRUE
  /\ initPlatform = "none"
  /\ sinceInit = Absent
  /\ wh = NoWebhook
  /\ live = NoLive
  /\ sleeps = 0
  /\ sessions = NoSessions
  /\ bus = NoBus

NextClient ==
  \/ GetUserAccessToken
  \/ ExtendUserAccessToken
  \/ GetFacebookPages
  \/ GetPageFeed
  \/ PostToFacebookPage
  \/ InitReelUploadCall
  \/ UploadHostedFileCall
  \/ CheckReelUploadStatusCall
  \/ PublishReelCall

SpecClient == InitClient /\ [][NextClient]_vars

(***************************************************************************)
(* The webhook endpoint, one request at a time.                            *)
(***************************************************************************)
WebhookIdle == wh.kind = "none"

\* the record of a POST: the request, the answers it got and its outcome
PostRecord(body, env, outcomes, out) ==
  [NoWebhook EXCEPT
     !.kind = "post", !.payload = body, !.env = env, !.outcomes = outcomes,
     !.response = out.response, !.invalid = out.invalid,
     !.processed_events = out.processed_events,
     !.published = out.published, !.log = out.log]

WebhookGet ==
  /\ WebhookIdle
  /\ \E q \in Queries :
       wh' = [NoWebhook EXCEPT !.kind = "get", !.query = q,
                               !.response = WebhookGetResponse(q)]
  /\ UNCHANGED <<req, resp, calls, result, lastPhase, sessId, readyIds,
                 oneSession, inOrder, initPlatform, sinceInit, aux>>

WebhookPost ==
  /\ WebhookIdle
  /\ \E body \in Payloads \cup {NotJson} :
       \E env \in IF IsPagePayload(body) THEN EnvsFor(FlattenEntries(body.entry))
                  ELSE {<<>>} :
         \E outcomes \in PutEventsOutcomes(
                Len(process_webhook_event(body, env).processed_events)) :
           wh' = PostRecord(body, env, outcomes,
                            WebhookPostOutcome(body, env, outcomes))
  /\ UNCHANGED <<req, resp, calls, result, lastPhase, sessId, readyIds,
                 oneSession, inOrder, initPlatform, sinceInit, aux>>

\* the request is answered; nothing of it is kept
WebhookReturn ==
  /\ ~WebhookIdle
  /\ wh' = NoWebhook
  /\ UNCHANGED <<req, resp, calls, result, lastPhase, sessId, readyIds,
                 oneSession, inOrder, initPlatform, sinceInit, aux>>

NextWebhook ==
  \/ WebhookGet
  \/ WebhookPost
  \/ WebhookReturn

SpecWebhook == Init /\ [][NextWebhook]_vars

(***************************************************************************)
(* The dispatcher alone: one direct invocation of lambda_handler at a      *)
(* time, over every action modelled, an unknown action included.           *)
(***************************************************************************)
Dispatch(ev, r) ==
  LET out == lambda_handler(ev, r)
  IN  /\ req' = ev
      /\ result' = out.res
      /\ calls' = out.calls
      /\ resp' = r
      /\ UNCHANGED <<lastPhase, sessId, readyIds, oneSession, inOrder,
                     initPlatform, sinceInit, wh, aux>>

DispatchReelAction ==
  /\ Idle
  /\ \/ \E ev \in InitEvents("init_reel_upload") \cup InitEvents("post_reel") :
          \E r \in Answers(ev, InitResponses) : Dispatch(ev, r)
     \/ \E ev \in UploadEvents({NoUrl, GoodUrl}) :
          \E r \in Answers(ev, UploadResponses) : Dispatch(ev, r)
     \/ \E ev \in CheckEvents :
          \E r \in Answers(ev, CheckResponses) : Dispatch(ev, r)
     \/ \E ev \in PublishEvents :
          \E r \in Answers(ev, PublishResponses) : Dispatch(ev, r)

DispatchInstagramMedia ==
  /\ Idle
  /\ \E ev \in InstagramMediaEvents("check_instagram_media_status")
               \cup InstagramMediaEvents("publish_instagram_media") :
       Dispatch(ev, NoResp)

DispatchGetPages ==
  /\ Idle
  /\ \E ev \in TokenEvents("get_pages") :
       \E r \in PagesResponses : Dispatch(ev, r)

DispatchExtendToken ==
  /\ Idle
  /\ \E ev \in TokenEvents("extend_token") :
       \E r \in PassThroughResponses : Dispatch(ev, r)

DispatchGetAccessToken ==
  /\ Idle
  /\ \E ev \in AccessTokenEvents :
       \E r \in PassThroughResponses : Dispatch(ev, r)

DispatchUnknown ==
  /\ Idle
  /\ \E ev \in UnknownEvents : Dispatch(ev, NoResp)

NextDispatch ==
  \/ DispatchReelAction
  \/ DispatchInstagramMedia
  \/ DispatchGetPages
  \/ DispatchExtendToken
  \/ DispatchGetAccessToken
  \/ DispatchUnknown
  \/ Return

SpecDispatch == Init /\ [][NextDispatch]_vars

(***************************************************************************)
(* process_messaging_webhook called directly, one payload at a time.       *)
(***************************************************************************)
ProcessMessagingWebhook ==
  /\ WebhookIdle
  /\ \E payload \in MessagingPayloads :
       wh' = [NoWebhook EXCEPT
                !.kind = "messaging", !.payload = payload,
                !.invalid = process_messaging_webhook(payload).raised,
                !.processed_events = process_messaging_webhook(payload).processed_events]
  /\ UNCHANGED <<req, resp, calls, result, lastPhase, sessId, readyIds,
                 oneSession, inOrder, initPlatform, sinceInit, aux>>

NextMessaging ==
  \/ ProcessMessagingWebhook
  \/ WebhookReturn

SpecMessaging == Init /\ [][NextMessaging]_vars

(***************************************************************************)
(* A delivery to POST /webhook and its redelivery.  The platform delivers  *)
(* a payload again when the delivery was not answered with 200; the        *)
(* redelivery is a new invocation on the same payload, and gets the same   *)
(* answers from the Token Store and the Graph API.                         *)
(***************************************************************************)
\* a POST of body with answers env and put_events outcomes, given its outcome
Delivered(body, env, outcomes, out, again) ==
  /\ wh' = PostRecord(body, env, outcomes, out)
  /\ bus' = [events |-> bus.events \o out.published,
             first |-> IF again THEN bus.first
                       ELSE PostRecord(body, env, outcomes, out),
             redelivered |-> again]
  /\ UNCHANGED <<req, resp, calls, result, lastPhase, sessId, readyIds,
                 oneSession, inOrder, initPlatform, sinceInit,
                 live, sleeps, sessions>>

Deliver ==
  /\ WebhookIdle
  /\ bus.first.kind = "none"
  /\ \E body \in Payloads \cup {NotJson} :
       \E env \in IF IsPagePayload(body) THEN EnvsFor(FlattenEntries(body.entry))
                  ELSE {<<>>} :
         \E outcomes \in PutEventsOutcomes(
                Len(process_webhook_event(body, env).processed_events)) :
           Delivered(body, env, outcomes,
                     WebhookPostOutcome(body, env, outcomes), FALSE)

Redeliver ==
  /\ WebhookIdle
  /\ bus.first.kind = "post" /\ ~bus.redelivered
  /\ bus.first.response.statusCode # 200
  /\ \E outcomes \in PutEventsOutcomes(Len(bus.first.processed_events)) :
       Delivered(bus.first.payload, bus.first.env, outcomes,
                 WebhookPostOutcome(bus.first.payload, bus.first.env, outcomes),
                 TRUE)

NextRedelivery ==
  \/ Deliver
  \/ Redeliver
  \/ WebhookReturn

SpecRedelivery == Init /\ [][NextRedelivery]_vars

(***************************************************************************)
(* The post_to_page action of the dispatcher, one invocation at a time;    *)
(* sleeps is the number of times the invocation slept.                     *)
(***************************************************************************)
SleepsOf(out) == IF "sleeps" \in DOMAIN out THEN out.sleeps ELSE 0

PostToPage ==
  /\ Idle
  /\ \E ev \in PostEvents :
       \E r \in PostAnswersFor(ev) :
         /\ req' = ev
         /\ resp' = r
         /\ result' = lambda_handler(ev, r).res
         /\ calls' = lambda_handler(ev, r).calls
         /\ sleeps' = SleepsOf(lambda_handler(ev, r))
  /\ UNCHANGED <<lastPhase, sessId, readyIds, oneSession, inOrder,
                 initPlatform, sinceInit, wh, live, sessions, bus>>

PostReturn ==
  /\ ~Idle
  /\ req' = NoEvent
  /\ resp' = NoResp
  /\ calls' = 0
  /\ result' = NoResult
  /\ sleeps' = 0
  /\ UNCHANGED <<lastPhase, sessId, readyIds, oneSession, inOrder,
                 initPlatform, sinceInit, wh, live, sessions, bus>>

NextPost ==
  \/ PostToPage
  \/ PostReturn

SpecPost == Init /\ [][NextPost]_vars

(***************************************************************************)
(* init invoked again and again.  The platform creates an upload session   *)
(* (a container) with an id of its own for every create / upload-start     *)
(* call it accepts, and answers with that id.                              *)
(***************************************************************************)
\* the platform creates at most MaxSessions sessions
MaxSessions == 3

\* init events with every parameter present
SessionInitEvents ==
  {ev \in InitEvents("init_reel_upload") \cup InitEvents("post_reel") :
     /\ ~MissingInitParameters(ev)
     /\ ev.platform \in {"facebook", "instagram"}}

\* the id key of the answer to the call the event's init makes
SessionAnswer(ev, id) ==
  IF ev.action = "init_reel_upload" /\ ev.platform = "instagram"
  THEN [Json EXCEPT !.id = id]
  ELSE [Json EXCEPT !.video_id = id]

\* the platform accepts the call and answers with the id of the session it
\* has created, or refuses it, or the call fails
SessionAnswers(ev) ==
  {SessionAnswer(ev, Len(sessions.created) + 1),
   [Json EXCEPT !.error = "generic"], Failure}

SessionCreated(r) == r.kind = "json" /\ r.error = "absent"

\* the sessions after an invocation with event ev answered by r gave res
SessionsAfter(ev, r, res) ==
  [created |-> IF SessionCreated(r)
               THEN Append(sessions.created, Len(sessions.created) + 1)
               ELSE sessions.created,
   returned |-> IF res.status = "pending"
                THEN Append(sessions.returned, ResultId(res))
                ELSE sessions.returned,
   inputs |-> IF res.status = "pending"
              THEN Append(sessions.inputs, ev)
              ELSE sessions.inputs]

InitSession ==
  /\ Idle
  /\ Len(sessions.created) < MaxSessions
  /\ \E ev \in SessionInitEvents :
       \E r \in SessionAnswers(ev) :
         /\ req' = ev
         /\ resp' = r
         /\ result' = lambda_handler(ev, r).res
         /\ calls' = lambda_handler(ev, r).calls
         /\ sessions' = SessionsAfter(ev, r, lambda_handler(ev, r).res)
  /\ UNCHANGED <<lastPhase, sessId, readyIds, oneSession, inOrder,
                 initPlatform, sinceInit, wh, live, sleeps, bus>>

NextInit ==
  \/ InitSession
  \/ Return

SpecInit == Init /\ [][NextInit]_vars

(***************************************************************************)
(* create_live_stream called directly, one call at a time, over every      *)
(* stream URL the platform may answer with.                                *)
(***************************************************************************)
LiveCall(parts, r) ==
  /\ live' = [kind |-> "call", parts |-> parts, answer |-> r,
              result |-> create_live_stream("p1", "tok", r)]
  /\ UNCHANGED <<req, resp, calls, result, lastPhase, sessId, readyIds,
                 oneSession, inOrder, initPlatform, sinceInit, wh,
                 sleeps, sessions, bus>>

\* the platform answers with a stream URL
CreateLiveStream ==
  /\ live.kind = "none"
  /\ \E u \in StreamUrlParts, id \in 0..1, b \in SecondaryUrls :
       LiveCall(u, LiveAnswer("ok", id, UrlText(u), b))

\* the call fails, is refused, or is answered without a stream URL
CreateLiveStreamRefused ==
  /\ live.kind = "none"
  /\ \E k \in {"exception", "not_ok", "ok"}, id \in 0..1 :
       LiveCall(<<>>, LiveAnswer(k, id, <<>>, <<>>))

LiveReturn ==
  /\ live.kind # "none"
  /\ live' = NoLive
  /\ UNCHANGED <<req, resp, calls, result, lastPhase, sessId, readyIds,
                 oneSession, inOrder, initPlatform, sinceInit, wh,
                 sleeps, sessions, bus>>

NextLive ==
  \/ CreateLiveStream
  \/ CreateLiveStreamRefused
  \/ LiveReturn

SpecLive == Init /\ [][NextLive]_vars

(***************************************************************************)
(* upload_hosted_file as a function of the source URL: every URL of        *)
(* AllUrls, one invocation each.                                           *)
(***************************************************************************)
InitUrl ==
  /\ req \in {ev \in UploadEvents(AllUrls) :
                /\ ev.page_id # "" /\ ev.page_access_token # "" /\ ev.video_id = 1
                /\ ev.platform \in {"facebook", "instagram", "Instagram"}}
  /\ resp = NoResp
  /\ calls = 0
  /\ result = NoResult
  /\ lastPhase = "initialized"
  /\ sessId = 1
  /\ readyIds = {}
  /\ oneSession = TRUE
  /\ inOrder = TRUE
  /\ initPlatform = req.platform
  /\ sinceInit = 0
  /\ wh = NoWebhook
  /\ live = NoLive
  /\ sleeps = 0
  /\ sessions = NoSessions
  /\ bus = NoBus

UploadUrl ==
  /\ result = NoResult
  /\ \E r \in Answers(req, UploadResponses) : Invoke(req, r)

NextUrl == UploadUrl

SpecUrl == InitUrl /\ [][NextUrl]_vars

(***************************************************************************)
(* Properties.                                                             *)
(***************************************************************************)
\* an invocation of the action has returned
Returned(actions) == req.action \in actions /\ result.kind # "none"

\* the invocation made its outbound call and the platform answered with JSON
Answered == calls > 0 /\ resp.kind = "json"

\* the status field check_status reads is missing from the answer
NoStatusField ==
  IF Lower(req.platform) = "instagram" THEN resp.status_code = "absent"
  ELSE resp.status = "absent"

\* C1 (as claimed): every result of check_reel_upload_status has status
\* ready, processing or error.
C1_StatusThreeWay ==
  (Returned({"check_reel_upload_status"}) /\ result.kind = "result")
    => result.status \in {"ready", "processing", "error"}

\* C1 (amended): every result of check_reel_upload_status has status ready,
\* processing, error or unknown, and unknown is the status exactly when the
\* platform's answer carries neither an error key nor the status field.
C1_StatusFourWay ==
  (Returned({"check_reel_upload_status"}) /\ result.kind = "result")
    => /\ result.status \in {"ready", "processing", "error", "unknown"}
       /\ result.status = "unknown"
            <=> (Answered /\ resp.error = "absent" /\ NoStatusField)

C1_Witness ==
  /\ Returned({"check_reel_upload_status"})
  /\ Lower(req.platform) = "instagram"
  /\ Answered /\ resp.error = "absent" /\ resp.status_code = "absent"
  /\ result.status = "unknown"

\* published is reported only with an id reported ready before
PublishedOnlyReady ==
  result'.phase = "published" => ResultId(result') \in readyIds

\* C2 (as claimed): over any sequence of invocations on one session the phase
\* the results report only moves forward along uninitialized -> initialized
\* -> {processing | ready} -> published, and published is reported only for
\* an id reported ready before.  (Stated without the moves into and out of
\* failed, so that an error result never counts against the claim.)
C2_PhaseOnlyForward ==
  [][(result'.kind # "none" /\ oneSession')
       => /\ (lastPhase # "failed" /\ lastPhase' # "failed")
               => Rank(lastPhase') >= Rank(lastPhase)
          /\ PublishedOnlyReady]_vars

\* C2 (amended): the same, failed being terminal, over the sequences in which
\* the caller follows the protocol (init first; upload_hosted_file and
\* check_status with the id init returned; check_status again only while
\* processing; publish only with the id reported ready; nothing after
\* published or an error): there the phase only moves forward, published is
\* reported only for the id reported ready, and a successful publish reports
\* published.  The core itself keeps no state and enforces no order.
C2_PhaseForwardInOrder ==
  [][(result'.kind # "none" /\ inOrder')
       => /\ Rank(lastPhase') >= Rank(lastPhase)
          /\ PublishedOnlyReady
          /\ (req'.action \in PublishActions /\ result'.status = "success")
               => lastPhase' = "published"]_vars

C2_Witness ==
  /\ inOrder
  /\ Returned({"publish_reel"})
  /\ lastPhase = "published"
  /\ ResultId(result) \in readyIds

\* C3: every result of upload_hosted_file, check_status and publish that
\* carries a video_id or a creation_id carries the id the caller passed in.
C3_IdEchoed ==
  Returned({"upload_hosted_file", "check_reel_upload_status", "publish_reel"})
    => /\ result.video_id # Absent => result.video_id = req.video_id
       /\ result.creation_id # Absent => result.creation_id = req.video_id

C3_Witness ==
  /\ Returned({"publish_reel"})
  /\ Lower(req.platform) = "instagram"
  /\ result.status = "success"
  /\ result.creation_id = req.video_id
  /\ result.media_id # result.creation_id

\* the attempt counter of an event, 0 when the event has none
AttemptOf(a) == IF a = Absent THEN 0 ELSE a

\* C4: every result of the check_reel_upload_status and the
\* check_instagram_media_status actions carries attempt = n + 1 for the
\* caller's attempt n (0 when absent).
C4_AttemptEchoed ==
  Returned(CheckActions) => result.attempt = AttemptOf(req.attempt) + 1

\* the answer carries a field that init, check_status or publish reads as
\* (partial) success
HasSuccessField ==
  \/ resp.id # 0 \/ resp.video_id # 0 \/ resp.success = "true"
  \/ resp.status_code # "absent" \/ resp.status # "absent"

\* C5: in init, check_status and publish, an answer with an error key and
\* partial success fields gives status error.
C5_ErrorWins ==
  ( /\ Returned(InitActions \cup {"check_reel_upload_status", "publish_reel"})
    /\ Answered /\ resp.error # "absent" /\ HasSuccessField )
    => result.status = "error"

\* C6: a publish that receives the platform's transient not-ready answer
\* returns status not_ready, the identifying fields echoed and
\* publish_attempt = the caller's publish_attempt + 1.
C6_NotReadyEchoed ==
  (Returned(PublishActions) /\ Answered /\ resp.error = "not_ready")
    => /\ result.status = "not_ready"
       /\ result.publish_attempt = AttemptOf(req.publish_attempt) + 1
       /\ ResultId(result) = EventId(req)

\* a facebook publish whose finish call was answered, and the two success
\* shapes {success: true, post_id} and {id, permalink_url}
FacebookPublishAnswered ==
  Returned({"publish_reel"}) /\ req.platform = "facebook" /\ Answered

ShapeSuccessPostId == resp.success = "true" /\ resp.post_id
ShapeIdPermalink == resp.id # 0 /\ resp.permalink_url

Published == result.status = "success" /\ result.phase = "published"

\* C7 (as claimed): facebook publish gives success / published for each of
\* the two success shapes, and error for an answer of neither shape.
C7_TwoShapesOnly ==
  FacebookPublishAnswered
    => IF ShapeSuccessPostId \/ ShapeIdPermalink THEN Published
       ELSE result.status = "error"

\* C7 (amended): facebook publish gives success / published exactly when the
\* answer has success = true or an id key, post_id and permalink_url being
\* optional; every other answer gives status error, phase publish.
C7_SuccessOrId ==
  FacebookPublishAnswered
    => IF resp.success = "true" \/ resp.id # 0 THEN Published
       ELSE result.status = "error" /\ result.phase = "publish"

C7_Witness ==
  /\ FacebookPublishAnswered
  /\ ShapeIdPermalink /\ resp.success = "absent" /\ resp.error = "absent"
  /\ Published

\* an instagram publish that made its media_publish call
InstagramPublishCalled ==
  Returned({"publish_reel"}) /\ Lower(req.platform) = "instagram" /\ calls > 0

\* C8 (as claimed): instagram publish returns success if and only if the
\* answer carries a media id distinct from the creation id.
C8_SuccessIffNewId ==
  InstagramPublishCalled
    => (result.status = "success" <=> (resp.id # 0 /\ resp.id # req.video_id))

\* C8 (amended): instagram publish returns success if and only if the answer
\* carries an id key, whose value it returns as media_id without comparing
\* it with the creation id.
C8_SuccessIffId ==
  InstagramPublishCalled
    => /\ result.status = "success" <=> resp.id # 0
       /\ result.status = "success" => result.media_id = resp.id

C8_Witness ==
  /\ InstagramPublishCalled
  /\ resp.id # 0 /\ resp.id # req.video_id
  /\ result.status = "success" /\ result.media_id = resp.id

\* the actions whose description is a required parameter
DescribedActions == {"init_reel_upload", "post_reel", "publish_reel"}

\* C9 (as claimed): with the description absent or empty the operation
\* returns an error tagged phase initialization and makes no Graph API call.
C9_FailFastInitialization ==
  (Returned(DescribedActions) /\ req.message = "")
    => /\ result.status = "error" /\ result.phase = "initialization"
       /\ calls = 0

\* C9 (amended): with the description absent or empty the dispatcher actions
\* init_reel_upload, post_reel and publish_reel return the missing-parameters
\* error record, which has an error key and no status or phase, and make no
\* Graph API call.
C9_FailFastErrorRecord ==
  (Returned(DescribedActions) /\ req.message = "")
    => result = ErrorRecord /\ calls = 0

C9_Witness ==
  /\ Returned({"init_reel_upload"})
  /\ req.message = "" /\ req.page_id # "" /\ req.page_access_token # ""
  /\ req.mm_url # NoUrl /\ req.platform = "instagram"
  /\ result = ErrorRecord /\ calls = 0

\* the URL's scheme is https (schemes compare without case)
UsesHttps(url) == url.scheme \in {"https://", "HTTPS://"}

\* the URL's host is fbcdn.net or a subdomain of it
HostIsCdn(url) ==
  LET h == LowerSeq(url.netloc)
      n == Len(h)
  IN  /\ n >= 3
      /\ SubSeq(h, n - 2, n) = FbCdn
      /\ n > 3 => h[n - 3] = "."

\* C10: facebook upload_hosted_file returns error without a network call for
\* every URL that is not https and every URL whose host is the CDN domain;
\* only URLs passing both checks lead to the upload call; a URL whose host is
\* not the CDN domain is never rejected by the CDN check.
C10_UrlValidation ==
  (Returned({"upload_hosted_file"}) /\ req.platform = "facebook")
    => /\ (~UsesHttps(req.mm_url) \/ HostIsCdn(req.mm_url))
            => (result.status = "error" /\ calls = 0)
       /\ calls > 0 => (UsesHttps(req.mm_url) /\ ~HostIsCdn(req.mm_url))
       /\ ~HostIsCdn(req.mm_url) => result.error_details # "fbcdn_not_supported"

\* the platform answered the operation's call with JSON carrying no id
\* (instagram), or an error or no video_id (facebook)
InitAnswerUnusable ==
  IF Lower(req.platform) = "instagram" THEN resp.id = 0
  ELSE resp.error # "absent" \/ resp.video_id = 0

\* C11 (as claimed): init_reel_upload returns status pending with the
\* extracted id, or status error with phase initialization, whatever the
\* cause of the error.
C11_InitErrorPhaseInitialization ==
  Returned({"init_reel_upload"})
    => \/ result.status = "pending" /\ result.video_id \in Ids
       \/ result.status = "error" /\ result.phase = "initialization"

\* C11 (amended): init_reel_upload returns status pending, phase initialized,
\* with the id of the answer, or status error; the error carries phase
\* initialization when the target id is missing or the call fails, phase
\* media_creation when the instagram answer has no id, and phase start when
\* the facebook answer has an error or no video_id.
C11_InitPendingOrPhasedError ==
  Returned({"init_reel_upload"})
    => \/ /\ result.status = "pending" /\ result.phase = "initialized"
          /\ Answered /\ ~InitAnswerUnusable
          /\ result.video_id \in Ids
          /\ result.video_id = IF Lower(req.platform) = "instagram"
                               THEN resp.id ELSE resp.video_id
       \/ /\ result.status = "error"
          /\ result.error_details # "absent"
          /\ result.phase =
               IF ~Answered THEN "initialization"
               ELSE IF Lower(req.platform) = "instagram" THEN "media_creation"
               ELSE "start"
          /\ Answered => InitAnswerUnusable

C11_Witness ==
  /\ Returned({"init_reel_upload"})
  /\ req.platform = "facebook"
  /\ Answered /\ resp.error = "generic" /\ resp.video_id # 0
  /\ result.status = "error" /\ result.phase = "start"

\* the operation's call failed, or the platform answered with an error object
RemoteFailure ==
  /\ result.kind # "none" /\ calls > 0
  /\ resp.kind = "exception" \/ resp.error # "absent"

\* C13: on a transport failure or a platform-reported error every operation,
\* the pass-through calls included, returns a result with status error and
\* error_details; no failure leaves the operation as a raised exception.
C13_NoFaultEscapes ==
  RemoteFailure
    => /\ result.kind # "raised"
       /\ result.status = "error"
       /\ result.error_details # "absent"

\* the invocation that has returned is a check_status on the id, the target
\* and the platform of the init that returned just before it
CheckRightAfterInit ==
  /\ Returned({"check_reel_upload_status"})
  /\ sinceInit = 1
  /\ req.video_id = sessId /\ req.platform = initPlatform
  /\ req.page_id # "" /\ req.page_access_token # ""

\* the answer carries the status field with a value that is not the error one
AnswerInProgressOrReady ==
  /\ Answered /\ resp.error = "absent"
  /\ IF Lower(req.platform) = "instagram"
     THEN resp.status_code \in StatusCodes \ {"ERROR"}
     ELSE resp.status \in VideoStatuses \ {"error", "not_a_dict"}

\* C12 (as claimed): init followed immediately by check_status with the id
\* init returned yields status processing or ready.
C12_InitThenCheckProcessingOrReady ==
  CheckRightAfterInit => result.status \in {"processing", "ready"}

\* C12 (amended): init followed immediately by check_status with the id init
\* returned yields a result for that id whose status is processing, ready,
\* error or unknown, never uninitialized or pending; it is processing or
\* ready exactly when the platform answers with a status that is not an
\* error.
C12_InitThenCheckFourWay ==
  CheckRightAfterInit
    => /\ result.kind = "result"
       /\ result.status \in {"processing", "ready", "error", "unknown"}
       /\ result.status \in {"processing", "ready"} <=> AnswerInProgressOrReady
       /\ result.status # "error" => ResultId(result) = sessId

C12_Witness ==
  /\ CheckRightAfterInit
  /\ initPlatform = "instagram"
  /\ Answered /\ resp.status_code = "IN_PROGRESS"
  /\ result.status = "processing"

\* a POST has been answered, and its body was a JSON object
Posted == wh.kind = "post" /\ wh.payload # NotJson

\* the change is a comment/add whose commenter is the receiving page
SelfComment(l) ==
  l.value.item = "comment" /\ l.value.verb = "add" /\ l.value.from_id = l.page_id

\* the change is a comment/add whose commenter is not the receiving page
Qualifying(l) ==
  l.value.item = "comment" /\ l.value.verb = "add" /\ l.value.from_id # l.page_id

\* C14: for a comment/add change whose commenter id equals the id of the
\* receiving page no event is emitted, and no Token Store lookup and no
\* Graph API call is made for it.
C14_SelfCommentDropped ==
  Posted
    => /\ \A i \in 1..Len(wh.log) :
            SelfComment(wh.log[i])
              => /\ ~wh.log[i].emitted
                 /\ wh.log[i].lookups = 0 /\ wh.log[i].fetches = 0
       /\ \A k \in 1..Len(wh.processed_events) :
            wh.processed_events[k].from_id # "p1"
       /\ \A k \in 1..Len(wh.published) : wh.published[k].from_id # "p1"

C14_Witness ==
  /\ Posted /\ wh.response.statusCode = 200
  /\ Len(wh.log) = 2
  /\ SelfComment(wh.log[1]) /\ Qualifying(wh.log[2])
  /\ Len(wh.processed_events) = 1 /\ Len(wh.published) = 1

\* the number of qualifying changes over all entries of the payload
QualifyingChanges(payload) ==
  LET flat == FlattenEntries(payload.entry)
  IN  Cardinality({i \in 1..Len(flat) : Qualifying(flat[i])})

\* C15: the normalizer emits one event per qualifying comment change and none
\* for any other change, so that the number of events equals the number of
\* qualifying changes of the payload; an event is tagged top_level when
\* parent_id equals post_id and reply otherwise.
C15_OneEventPerQualifyingChange ==
  (Posted /\ wh.payload.object = "page")
    => /\ Len(wh.processed_events) = QualifyingChanges(wh.payload)
       /\ \A i \in 1..Len(wh.log) : wh.log[i].emitted <=> Qualifying(wh.log[i])
       /\ \A k \in 1..Len(wh.processed_events) :
            LET e == wh.processed_events[k]
            IN  e.comment_level =
                  IF e.parent_id = e.post_id THEN "top_level" ELSE "reply"

\* a fetch made for the change failed
FetchFailed(a) ==
  \/ a.post \in {"request_exception", "other_exception"}
  \/ a.thread \in {"request_exception", "other_exception"}
  \/ a.owner = "exception"

\* C16: when a Graph API fetch made while building the event of a qualifying
\* change fails, the event is still emitted, with the thread that could not
\* be fetched left empty, and the other qualifying changes of the payload are
\* still emitted.
C16_EnrichmentFailureKeepsEvent ==
  (Posted /\ wh.payload.object = "page")
    => \A i \in 1..Len(wh.log) :
         FetchFailed(wh.log[i].answers)
           => /\ wh.log[i].emitted
              /\ wh.log[i].event.thread_context.comment_thread = <<>>
              /\ Len(wh.processed_events) = QualifyingChanges(wh.payload)

\* C17: a payload whose object type is missing or is not page is rejected:
\* the invalid payload is signalled and answered with an error, no event is
\* emitted and nothing is published.
C17_NonPagePayloadRejected ==
  (Posted /\ wh.payload.object # "page")
    => /\ wh.invalid
       /\ wh.response.body = "error" /\ wh.response.statusCode = 500
       /\ wh.processed_events = <<>> /\ wh.published = <<>> /\ wh.log = <<>>

C17_Witness ==
  /\ Posted /\ wh.payload.object = "absent"
  /\ QualifyingChanges(wh.payload) > 0
  /\ wh.invalid /\ wh.response.body = "error" /\ wh.published = <<>>

\* C18 (as claimed): GET /webhook echoes the challenge if and only if the
\* verify token supplied matches the configured secret.
C18_EchoIffTokenMatches ==
  wh.kind = "get"
    => (wh.response.body = "challenge"
          <=> (wh.query.present /\ wh.query.verify_token = WebhookVerifyToken))

\* C18 (amended): GET /webhook echoes the challenge if and only if the mode
\* is subscribe and the verify token supplied matches the configured secret;
\* in every other case the answer is an error response.
C18_EchoIffSubscribeAndTokenMatches ==
  wh.kind = "get"
    => /\ wh.response.body = "challenge"
            <=> /\ wh.query.present /\ wh.query.mode = "subscribe"
                /\ wh.query.verify_token # ""
                /\ wh.query.verify_token = WebhookVerifyToken
       /\ wh.response.body = "challenge" => wh.response.statusCode = 200
       /\ wh.response.body # "challenge"
            => wh.response.body = "error" /\ wh.response.statusCode # 200

C18_Witness ==
  /\ wh.kind = "get"
  /\ wh.query.mode = "subscribe" /\ wh.query.verify_token = WebhookVerifyToken
  /\ wh.response.body = "challenge"

Reply(l) == l.value.parent_id # l.value.post_id

\* the thread of a reply: the parent comment alone, with a replies field
ParentAlone(thread, parent_id) ==
  /\ Len(thread) = 1
  /\ thread[1].id = parent_id
  /\ thread[1].replies # "absent"

\* C20 (as claimed): the event emitted for a reply has comment_level reply
\* and a comment_thread of exactly one entry, the parent comment, with a
\* replies field.
C20_ReplyHasParentEntry ==
  Posted
    => \A i \in 1..Len(wh.log) :
         (wh.log[i].emitted /\ Reply(wh.log[i]))
           => /\ wh.log[i].event.comment_level = "reply"
              /\ ParentAlone(wh.log[i].event.thread_context.comment_thread,
                             wh.log[i].value.parent_id)

\* C20 (amended): the event emitted for a reply has comment_level reply; its
\* comment_thread is exactly one entry, the parent comment, with a replies
\* field, when the post fetch and the parent fetch both return, and is empty
\* when one of them raises a request exception.
C20_ReplyHasParentEntryWhenFetched ==
  Posted
    => \A i \in 1..Len(wh.log) :
         (wh.log[i].emitted /\ Reply(wh.log[i]))
           => /\ wh.log[i].event.comment_level = "reply"
              /\ wh.log[i].event.thread_context.hierarchy = "reply"
              /\ IF wh.log[i].answers.post = "ok"
                      /\ wh.log[i].answers.thread \in {"ok", "error_object"}
                 THEN ParentAlone(wh.log[i].event.thread_context.comment_thread,
                                  wh.log[i].value.parent_id)
                 ELSE wh.log[i].event.thread_context.comment_thread = <<>>

C20_Witness ==
  /\ Posted /\ wh.response.statusCode = 200
  /\ Len(wh.log) = 1 /\ wh.log[1].emitted /\ Reply(wh.log[1])
  /\ wh.log[1].answers.thread = "ok"
  /\ ParentAlone(wh.published[1].thread_context.comment_thread, "c1")

\* the change is a top-level comment: its parent is the post
TopLevel(l) == l.value.parent_id = l.value.post_id

\* C21 (as claimed): the event emitted for a top-level comment has
\* comment_level top_level and a comment_thread of at most 5 sibling
\* comments, whatever the comments endpoint returns.
C21_TopLevelAtMostFiveSiblings ==
  Posted
    => \A i \in 1..Len(wh.log) :
         (wh.log[i].emitted /\ TopLevel(wh.log[i]))
           => /\ wh.log[i].event.comment_level = "top_level"
              /\ Len(wh.log[i].event.thread_context.comment_thread) <= CommentsLimit

\* C21 (amended): the event emitted for a top-level comment has
\* comment_level top_level; its comment_thread is the list the comments
\* endpoint returns under data, as returned (empty when a fetch raises a
\* request exception or the answer has no data), hence of at most 5 sibling
\* comments whenever the endpoint returns no more than the 5 asked for.
C21_TopLevelSiblingsAsReturned ==
  Posted
    => \A i \in 1..Len(wh.log) :
         (wh.log[i].emitted /\ TopLevel(wh.log[i]))
           => /\ wh.log[i].event.comment_level = "top_level"
              /\ wh.log[i].event.thread_context.hierarchy = "top_level"
              /\ Len(wh.log[i].event.thread_context.comment_thread) =
                    IF wh.log[i].answers.post = "ok" /\ wh.log[i].answers.thread = "ok"
                    THEN wh.log[i].answers.siblings ELSE 0
              /\ wh.log[i].answers.siblings <= CommentsLimit
                    => Len(wh.log[i].event.thread_context.comment_thread) <= CommentsLimit

C21_Witness ==
  /\ Posted /\ wh.response.statusCode = 200
  /\ Len(wh.log) = 1 /\ wh.log[1].emitted /\ TopLevel(wh.log[1])
  /\ wh.log[1].answers.siblings = CommentsLimit + 1
  /\ wh.published[1].comment_level = "top_level"
  /\ Len(wh.published[1].thread_context.comment_thread) = CommentsLimit + 1

\* the actions of the dispatcher, and the events that miss a parameter the
\* action's operation requires
DispatcherActions ==
  {"post_reel", "init_reel_upload", "upload_hosted_file",
   "check_reel_upload_status", "publish_reel", "check_instagram_media_status",
   "publish_instagram_media", "get_pages", "extend_token", "get_access_token"}

RequiredMissing(ev) ==
  CASE ev.action \in {"post_reel", "init_reel_upload"} -> MissingInitParameters(ev)
    [] ev.action = "upload_hosted_file" -> MissingUploadParameters(ev)
    [] ev.action = "check_reel_upload_status" -> MissingCheckParameters(ev)
    [] ev.action = "publish_reel" -> MissingPublishParameters(ev)
    [] ev.action = "check_instagram_media_status" ->
         ev.creation_id = 0 \/ ev.page_access_token = ""
    [] ev.action = "publish_instagram_media" ->
         ev.instagram_id = "" \/ ev.creation_id = 0 \/ ev.page_access_token = ""
    [] ev.action \in {"get_pages", "extend_token"} -> ev.page_access_token = ""
    [] ev.action = "get_access_token" ->
         ev.page_id = "" \/ ev.page_access_token = ""
    [] OTHER -> FALSE

\* the result is an error record: the dispatcher's or the service's, or
\* the error response lambda_handler makes of an exception
StructuredError(res) == res.kind \in {"error_record", "error_response"}

\* C22: every dispatcher action invoked with a required parameter missing
\* yields a structured error record, and no exception escapes lambda_handler,
\* whatever the event (an unknown action included).
C22_MissingParameterErrorRecord ==
  /\ result.kind # "raised"
  /\ (req.action \in DispatcherActions /\ RequiredMissing(req))
       => StructuredError(result)

\* C23: whenever init on the instagram platform returns status pending, the
\* result's creation_id and video_id are equal and both are the id of the
\* container created by that call.
C23_InstagramInitOneId ==
  (req.action = "init_reel_upload" /\ req.platform # "none"
     /\ Lower(req.platform) = "instagram" /\ result.status = "pending")
    => /\ calls = 1 /\ resp.id # 0
       /\ result.creation_id = resp.id
       /\ result.video_id = resp.id
       /\ result.creation_id = result.video_id

C23_Witness ==
  /\ req.action = "init_reel_upload" /\ req.platform = "Instagram"
  /\ result.status = "pending" /\ result.phase = "initialized"
  /\ resp.id = 2 /\ resp.video_id = 1
  /\ result.creation_id = 2 /\ result.video_id = 2

\* C24: on the instagram platform upload_hosted_file returns, for every
\* input, status success with phase upload_skipped_for_instagram, and makes
\* no network call.
C24_InstagramUploadSkipped ==
  (req.action = "upload_hosted_file" /\ req.platform # "none"
     /\ Lower(req.platform) = "instagram" /\ result # NoResult)
    => /\ result.kind = "result"
       /\ result.status = "success"
       /\ result.phase = "upload_skipped_for_instagram"
       /\ calls = 0 /\ resp = NoResp

\* a source URL the facebook branch refuses is skipped all the same
C24_Witness ==
  /\ req.action = "upload_hosted_file" /\ req.platform = "Instagram"
  /\ ~UsesHttps(req.mm_url)
  /\ result.status = "success" /\ result.phase = "upload_skipped_for_instagram"
  /\ calls = 0

\* the call was answered with a stream URL written from live.parts
LiveAnswered ==
  live.kind = "call" /\ live.answer.kind = "ok" /\ live.answer.id # 0
    /\ live.parts # <<>>

\* the path of the URL's parts starts with /rtmp/
RtmpPath(u) == Len(u.path) >= 3 /\ SubSeq(u.path, 1, 3) = <<"/", "rtmp", "/">>

\* the first stream_secondary_urls entry, if any, is an /rtmp/ URL
BackupUsable(r) == r.secondary = <<>> \/ Contains(r.secondary, <<"/", "rtmp", "/">>)

C26_NoSleepNoPollingLoop ==
  /\ sleeps = 0
  /\ Len(resp.codes) <= 1

\* the Token Store calls and the Event Publisher calls of the delivery: one
\* put_events per event published, and one more for the event whose
\* publishing failed
TokenStoreCalls ==
  Cardinality({i \in 1..Len(wh.log) : wh.log[i].lookups > 0})

PublisherCalls ==
  IF Len(wh.published) < Len(wh.processed_events)
  THEN Len(wh.published) + 1 ELSE Len(wh.published)

\* C27 (as claimed): a webhook delivery, whatever the number of entries and
\* qualifying comment changes it carries, performs at most one Token Store
\* call and at most one Event Publisher call.
C27_AtMostOneCallPerDelivery ==
  Posted => (TokenStoreCalls <= 1 /\ PublisherCalls <= 1)

\* C27 (amended): a webhook delivery performs one Token Store call for each
\* qualifying comment change it processes and none for any other change, and
\* at most one Event Publisher call for each event emitted; so at most one
\* of each when it carries at most one qualifying change.
C27_OneCallPerQualifyingChange ==
  Posted
    => /\ \A i \in 1..Len(wh.log) :
            wh.log[i].lookups = IF Qualifying(wh.log[i]) THEN 1 ELSE 0
       /\ TokenStoreCalls <= QualifyingChanges(wh.payload)
       /\ PublisherCalls <= Len(wh.processed_events)
       /\ Len(wh.processed_events) <= QualifyingChanges(wh.payload)
       /\ QualifyingChanges(wh.payload) <= 1
            => (TokenStoreCalls <= 1 /\ PublisherCalls <= 1)

C27_Witness ==
  /\ Posted /\ wh.response.statusCode = 200
  /\ Len(wh.payload.entry) = 2
  /\ QualifyingChanges(wh.payload) = 2
  /\ TokenStoreCalls = 2 /\ PublisherCalls = 2

\* C28: init is not idempotent.  Every init invocation, whatever was
\* initialized before and with whatever inputs, issues its own create /
\* upload-start call; the init invocations that returned pending are as many
\* as the sessions the platform created, each returned the id of the session
\* its own call created, and no id was returned twice.
C28_InitCreatesNewSession ==
  /\ (req.action \in InitActions /\ result # NoResult) => calls = 1
  /\ sessions.returned = sessions.created
  /\ \A i, j \in 1..Len(sessions.returned) :
       i # j => sessions.returned[i] # sessions.returned[j]
  /\ (req.action \in InitActions /\ result.status = "pending")
       => ResultId(result) = Len(sessions.created)

\* two inits with the same inputs, two sessions
C28_Witness ==
  /\ Len(sessions.inputs) = 2
  /\ sessions.inputs[1] = sessions.inputs[2]
  /\ sessions.inputs[1].platform = "facebook"
  /\ sessions.created = <<1, 2>> /\ sessions.returned = <<1, 2>>
  /\ req = sessions.inputs[2] /\ calls = 1 /\ result.video_id = 2

\* a page payload went through the messaging path
MessagingProcessed == wh.kind = "messaging" /\ wh.payload.object = "page"

\* C29: process_messaging_webhook emits exactly one flat record per
\* messaging sub-event of every entry, in order, a sub-event whose sender is
\* the page included, and every record is tagged with an event_type among
\* message, postback, delivery and read.
C29_OneTaggedRecordPerSubEvent ==
  MessagingProcessed
    => /\ ~wh.invalid
       /\ Len(wh.processed_events) = Len(FlattenMessaging(wh.payload.entry))
       /\ \A i \in 1..Len(wh.processed_events) :
            /\ wh.processed_events[i].sender_id =
                 FlattenMessaging(wh.payload.entry)[i].event.sender_id
            /\ wh.processed_events[i].event_type \in
                 {"message", "postback", "delivery", "read"}

\* published is the first events of processed_events, each with its action
\* tag, in the same order
PublishedInOrder(published, processed_events) ==
  /\ Len(published) <= Len(processed_events)
  /\ \A i \in 1..Len(published) :
       published[i] = [processed_events[i] EXCEPT !.action = "generate_comment_reply"]

\* the position of the event whose publishing failed, 0 if none did
FailedAt(outcomes) ==
  IF \E k \in 1..Len(outcomes) : outcomes[k] = "exception"
  THEN CHOOSE k \in 1..Len(outcomes) : outcomes[k] = "exception"
  ELSE 0

\* normalizing the payload raised at one of its changes
NormalizingRaised(log) ==
  \E i \in 1..Len(log) : log[i].lookups > 0 /\ ~log[i].emitted

\* the delivery d published its events in payload order up to the one whose
\* publishing failed, and nothing if normalizing did not complete
PublishedUpToFailure(d) ==
  /\ PublishedInOrder(d.published, d.processed_events)
  /\ NormalizingRaised(d.log)
       => (d.published = <<>> /\ d.response.statusCode # 200)
  /\ FailedAt(d.outcomes) > 0
       => /\ Len(d.published) = FailedAt(d.outcomes) - 1
          /\ d.response.body = "error" /\ d.response.statusCode # 200
  /\ (FailedAt(d.outcomes) = 0 /\ d.response.statusCode = 200)
       => Len(d.published) = Len(d.processed_events)

====
